---- MODULE Spec2Model ----
(***************************************************************************)
(* Model of memnexus' orchestration engine                                 *)
(* (src/src/memnexus/orchestrator/engine.py): the task objects handed to   *)
(* create_plan, the plan it stores, and execute_plan's strategy handlers   *)
(* (_execute_sequential, _execute_parallel, _execute_with_review,          *)
(* _execute_auto) with the TaskExecutor they drive; of the human           *)
(* intervention registry (src/src/memnexus/orchestrator/intervention.py):  *)
(* its points, waiters and monitor loop; of the ACP connection             *)
(* (src/src/memnexus/protocols/acp.py): its handshake, pending requests,   *)
(* reader task, inbound requests and prompt streams; of the memory sync    *)
(* bus (src/src/memnexus/memory/sync.py); of the session manager           *)
(* (src/src/memnexus/core/session.py) with the CLI launcher it drives; of  *)
(* the scheduler's dependency graph                                        *)
(* (src/src/memnexus/orchestrator/scheduler.py); and of one CLI agent      *)
(* wrapper (src/src/memnexus/agents/wrapper.py).  Each component has its   *)
(* own specification, in which the others stay as constructed.             *)
(***************************************************************************)
EXTENDS Integers, Sequences, FiniteSets, TLC

----------------------------------------------------------------------------
(* Bounds of the model *)

\* most tasks in the list given to create_plan
MaxTasks == 3
\* most entries in one task's dependencies list
MaxDeps == 2
\* most create_plan / execute_plan calls made on the engine in one behaviour
MaxCalls == 4
\* the same where one task is executed again and again (RetrySpec), and the
\* longest task list where one task is looked at (RetrySpec, WaitSpec)
MaxRetryCalls == 5
MaxRetryTasks == 2

(* Program constants *)

\* OrchestrationTask.max_retries (dataclass default)
max_retries == 3

----------------------------------------------------------------------------
\* task ids; the first MaxTasks of them are the ids a caller may use
Ids == <<"A", "B", "C", "D", "E", "F">>

Pool == {Ids[i] : i \in 1..MaxTasks}

\* the task lists a caller passes: the first n ids, in list order
TaskLists == {[i \in 1..n |-> Ids[i]] : n \in 0..MaxTasks}

\* dependency lists: ids of the pool without repetition (an id of the pool
\* that is not in the task list is a dependency on an unknown task)
DepLists ==
    UNION {{s \in [1..k -> Pool] : \A i, j \in 1..k : i # j => s[i] # s[j]} :
           k \in 0..MaxDeps}

\* AgentRole values the model uses: every plan task is a backend task, the
\* review tasks of the review strategy are reviewer tasks
Roles == {"backend", "reviewer"}

Strategies == {"sequential", "parallel", "review", "auto"}

TaskStates ==
    {"pending", "waiting_deps", "ready", "assigned", "running",
     "awaiting_review", "awaiting_human", "completed", "failed",
     "cancelled", "retrying"}

VARIABLES
    tasks,            \* plan.tasks: the list of task ids, in list order
    dependencies,     \* task.dependencies, per task: a list of ids
    state,            \* task.state
    result,           \* task.result: "none" (None) or "text"
    error,            \* task.error: "none" (None) or the message
    retry_count,      \* task.retry_count
    strategy,         \* plan.strategy ("none" before the first create_plan)
    phases,           \* plan.phases: a list of sets of ids
    plans,            \* whether engine._plans holds a plan for the session
    idle,             \* the roles for which the session has an idle agent
    pc,               \* where the engine is
    idx,              \* _execute_sequential: index of the current task
    completed_tasks,  \* _execute_parallel: completed_tasks
    failed,           \* _execute_parallel: failed
    batch,            \* _execute_parallel: gathered coroutines not yet started
    inflight,         \* _execute_parallel: gathered coroutines inside execute
    results_ok,       \* _execute_parallel: all(results) so far in this gather
    review_state,     \* _execute_with_review: state of review_<id>, per task
    ret,              \* what the last execute_plan returned ("none" before)
    calls             \* number of create_plan / execute_plan calls so far

taskVars == <<state, result, error, retry_count>>
planVars == <<tasks, dependencies, strategy, phases, plans>>
parVars == <<completed_tasks, failed, batch, inflight, results_ok>>
vars ==
    <<tasks, dependencies, state, result, error, retry_count, strategy,
      phases, plans, idle, pc, idx, completed_tasks, failed, batch, inflight,
      results_ok, review_state, ret, calls>>

----------------------------------------------------------------------------
(* The human intervention registry                                         *)
(* (src/src/memnexus/orchestrator/intervention.py): its state              *)

\* most intervention points registered in one behaviour
MaxPoints == 2
\* most callers of wait_for_resolution in one behaviour
MaxWaiters == 2

\* intervention ids, in the order the points are registered
PointIds == <<"p1", "p2", "p3", "p4">>

PointPool == {PointIds[i] : i \in 1..MaxPoints}

\* the ids a caller may pass: registered or not, and one never registered
CallIds == PointPool \cup {"unknown"}

WaiterIds == <<"w1", "w2", "w3", "w4">>

Waiters == {WaiterIds[i] : i \in 1..MaxWaiters}

\* the members of the InterventionStatus enum, by value
InterventionStatus ==
    {"pending", "waiting_for_human", "approved", "rejected", "modified",
     "overridden", "expired", "cancelled"}

\* the resolution actions a caller passes; "auto_approve" is the monitor's
\* and stands for every action that is none of the first three
ResolveActions == {"approve", "reject", "modify", "auto_approve"}

VARIABLES
    interventions,    \* _interventions: the ids, in insertion order
    points,           \* the InterventionPoint objects, by id
    waiting_futures,  \* _waiting_futures: id -> the future, named by the
                      \* caller awaiting it, or "done" once that caller's
                      \* wait timed out and cancelled it
    futures,          \* per caller: the future its wait_for_resolution made
    waiter,           \* per caller: where its wait_for_resolution call is
    monitor,          \* _monitor_task: "none", "running" or "cancelled"
    policies,         \* whether _policies holds "expensive_ops"
    last_resolve,     \* the resolve call that just ended, if one just did
    last_pass,        \* the _monitor_loop pass that just ended, if any
    last_wait         \* the wait_for_resolution that just returned, if any

ivVars ==
    <<interventions, points, waiting_futures, futures, waiter, monitor,
      policies, last_resolve, last_pass, last_wait>>

ivState ==
    <<interventions, points, waiting_futures, futures, waiter, monitor,
      policies>>


\* an InterventionPoint as its constructor leaves it; deadline is "none",
\* "future" or "passed" (against utcnow()), overdue is whether more than the
\* policy's auto_approve_after seconds passed since created_at
new_point(d) ==
    [status |-> "pending", deadline |-> d, overdue |-> FALSE,
     resolved_at |-> FALSE, resolved_by |-> "none", resolution |-> "none"]

\* no point (None)
NoPoint == [new_point("none") EXCEPT !.status = "none"]

\* a caller outside wait_for_resolution
NotWaiting == [pc |-> "idle", id |-> "none", on_waiting |-> FALSE]

\* no call has just ended
NoResolve ==
    [id |-> "none", action |-> "none", by |-> "none", before |-> NoPoint,
     outcome |-> "none", after |-> NoPoint, others_changed |-> FALSE]

NoPass == [ran |-> FALSE, raised |-> FALSE, due |-> {}]

NoWait == [w |-> "none", id |-> "none", got |-> "none"]

\* what the step that just happened lets its caller observe
observed(r, p, w) ==
    /\ last_resolve' = r
    /\ last_pass' = p
    /\ last_wait' = w

\* HumanInterventionSystem.__init__
InterventionInit ==
    /\ interventions = <<>>
    /\ points = <<>>
    /\ waiting_futures = <<>>
    /\ futures = [w \in Waiters |-> "none"]
    /\ waiter = [w \in Waiters |-> NotWaiting]
    /\ monitor = "none"
    /\ policies = FALSE
    /\ last_resolve = NoResolve
    /\ last_pass = NoPass
    /\ last_wait = NoWait

----------------------------------------------------------------------------
(* The ACP connection (src/src/memnexus/protocols/acp.py): its state *)

\* most requests the connection sends in one behaviour
MaxRequests == 3
\* most lines the reader takes from the agent's output in one behaviour
MaxLines == 3

\* the ids _next_id can give, as numbers (the code sends str(n))
RequestIds == 1..MaxRequests

VARIABLES
    initialized,       \* _initialized
    request_id,        \* _request_id
    pending_requests,  \* _pending_requests: the ids that have a future
    requests,          \* per id sent: its method, where its caller is, and
                       \* for a prompt the events its iterator has buffered
    message_queue,     \* _message_queue
    read_task,         \* _read_task: "none", "running", "ended", "cancelled"
    leaked,            \* live _read_messages tasks _read_task no longer names
    process,           \* the agent process: "running" or "exited"
    lines,             \* lines read from the agent's output so far
    handshake,         \* what became of the handshake: "none", "failed",
                       \* "completed", or "closed" once close was called
    last_call,         \* the send_prompt / call_tool call just made, if any
    last_read,         \* the line the reader has just routed, if any
    last_reply,        \* what the reader has just written back, if anything
    tool_handlers      \* _tool_handlers: the tool names with a handler

acpVars ==
    <<initialized, request_id, pending_requests, requests, message_queue,
      read_task, leaked, process, lines, handshake, last_call, last_read,
      last_reply, tool_handlers>>

NoCall == [op |-> "none", outcome |-> "none", wrote |-> FALSE]

\* no message; also the shape of every message: kind is "response",
\* "request", "notification", "not_json", "json_number", "json_array" (a
\* line that is JSON but no object) or "reader_error" (what a failing
\* reader queues); id is the "id" member (0: none); result is whether it
\* has a "result" member; method is its "method" ("none": none); type is
\* params.type; name is params.name; about is the prompt the agent wrote
\* it for (0: none)
NoMessage ==
    [kind |-> "none", id |-> 0, result |-> FALSE, method |-> "none",
     type |-> "none", name |-> "none", about |-> 0]

\* JSON-RPC error codes the connection sends: "method not found" for an
\* unknown tool, and the default of _send_error
METHOD_NOT_FOUND == -32601
INVALID_REQUEST == -32600

\* nothing written back; also the shape of a reply: kind is "result" or
\* "error", id the id it carries, code the error code (0: none)
NoReply == [kind |-> "none", id |-> 0, code |-> 0]

\* ACPConnection.__init__
AcpInit ==
    /\ initialized = FALSE
    /\ request_id = 0
    /\ pending_requests = {}
    /\ requests = <<>>
    /\ message_queue = <<>>
    /\ read_task = "none"
    /\ leaked = 0
    /\ process = "running"
    /\ lines = 0
    /\ handshake = "none"
    /\ last_call = NoCall
    /\ last_read = NoMessage
    /\ last_reply = NoReply
    /\ tool_handlers = {}

----------------------------------------------------------------------------
(* The memory sync bus (src/src/memnexus/memory/sync.py): its state *)

\* most events published in one behaviour
MaxEvents == 3

\* the session topics
Topics == {"s1", "s2"}

\* the callbacks a caller may subscribe: a plain function that raises, a
\* plain function that takes long before it returns, and a coroutine
\* function
Callbacks == {"raising", "slow", "task"}

VARIABLES
    subscribers,       \* _subscribers: session id -> set of callbacks
    published,         \* the events published so far, in order: for each its
                       \* session and the callbacks subscribed to it then
    publishing,        \* the publish call that is inside a callback, if any
    created_tasks,     \* the tasks publish created that have not run yet,
                       \* in the order the event loop will start them
    received           \* for each callback, the events it was called with

syncVars == <<subscribers, published, publishing, created_tasks, received>>

NoPublish == [event |-> 0, order |-> <<>>, at |-> 0]

\* MemorySyncBus.__init__
SyncInit ==
    /\ subscribers = <<>>
    /\ published = <<>>
    /\ publishing = NoPublish
    /\ created_tasks = <<>>
    /\ received = [c \in Callbacks |-> <<>>]

----------------------------------------------------------------------------
(* The session manager (src/src/memnexus/core/session.py) with the        *)
(* launchers it owns (src/src/memnexus/agents/wrapper.py): its state      *)

\* most sessions created in one behaviour
MaxSessions == 2
\* most agent processes launched in one behaviour
MaxLaunches == 2
\* most agents, and most tasks, added to one session
MaxAdded == 1

\* str(uuid.uuid4()): 32 hexadecimal digits in five groups joined by "-";
\* the n-th identifier drawn is told apart by its digits
uuid4(n) ==
    [i \in 1..36 |-> IF i \in {9, 14, 19, 24} THEN "-"
                     ELSE <<"a", "b", "c">>[n]]

\* Session.id: default_factory=lambda: str(uuid.uuid4())[:8]
new_session_id(n) == SubSeq(uuid4(n), 1, 8)

\* the ids a caller may pass: those of the sessions there may be, and one
\* that no session has
SessionIds == {new_session_id(n) : n \in 1..(MaxSessions + 1)}

SessionStatus == {"created", "running", "paused", "completed", "error"}

\* the statuses update_status is called with
NewStatus == {"running", "paused"}

\* the names launch_agent may be given
AgentNames == {"backend", "tester"}

VARIABLES
    sessions,          \* _sessions: id -> the session's status, agents, tasks
    context_managers,  \* the keys of _context_managers
    cli_launchers,     \* _cli_launchers: id -> the launcher's _wrappers
                       \* (name -> process)
    processes,         \* the agent processes started so far: for each the
                       \* session it was launched for, its name and whether
                       \* it runs
    created,           \* how many session ids have been drawn
    returned,          \* the ids create has returned
    deleted,           \* the ids delete has returned True for
    last_session_call  \* the create, update_status or delete call just
                       \* made, if any: its name, id, argument and result

sessVars ==
    <<sessions, context_managers, cli_launchers, processes, created,
      returned, deleted, last_session_call>>

NoSessionCall == [op |-> "none", id |-> <<>>, arg |-> "none", ret |-> "none"]

\* SessionManager.__init__
SessionInit ==
    /\ sessions = <<>>
    /\ context_managers = {}
    /\ cli_launchers = <<>>
    /\ processes = <<>>
    /\ created = 0
    /\ returned = {}
    /\ deleted = {}
    /\ last_session_call = NoSessionCall

----------------------------------------------------------------------------
(* The dependency graph of the scheduler                                   *)
(* (src/src/memnexus/orchestrator/scheduler.py): its state                 *)

VARIABLES
    g_tasks,           \* the keys of _tasks, in insertion order
    g_dependencies,    \* _dependencies: task id -> set of ids
    g_dependents,      \* _dependents: id -> set of task ids
    g_removed          \* whether remove_task has been called

graphVars == <<g_tasks, g_dependencies, g_dependents, g_removed>>

\* DependencyGraph.__init__
GraphInit ==
    /\ g_tasks = <<>>
    /\ g_dependencies = <<>>
    /\ g_dependents = <<>>
    /\ g_removed = FALSE

----------------------------------------------------------------------------
(* Cancelling a session's execution                                        *)
(* (src/src/memnexus/orchestrator/engine.py, OrchestratorEngine.cancel)    *)

VARIABLES
    cancel_called      \* whether cancel was called during this execute_plan

cancelVars == <<cancel_called>>

CancelInit == cancel_called = FALSE

----------------------------------------------------------------------------
(* One CLI agent wrapper (src/src/memnexus/agents/wrapper.py): its state   *)

\* how many times stop is called on the wrapper
MaxStops == 2

VARIABLES
    w_process,         \* self.process: "none" (None), "running", "exited"
                       \* (return code known, transport open) or "closed"
                       \* (transport finished: its _proc is None)
    w_status,          \* self.status
    output_task,       \* _output_task: "none", "reading", "eof" (end of
                       \* file fed, wake-up queued), "done" or "cancelled"
    stderr_task,       \* _stderr_task, likewise
    pipes_open,        \* whether someone still holds the child's pipes
    stop_pc,           \* where a running stop() is: "idle" when none runs
    signals,           \* the signals delivered to the process, in order
    stop_ret,          \* what the last stop() returned ("none" before)
    stops              \* number of stop() calls so far

wrapperVars ==
    <<w_process, w_status, output_task, stderr_task, pipes_open, stop_pc,
      signals, stop_ret, stops>>

\* BaseAgent.__init__ and CLIWrapper.__init__
WrapperInit ==
    /\ w_process = "none"
    /\ w_status = "idle"
    /\ output_task = "none"
    /\ stderr_task = "none"
    /\ pipes_open = FALSE
    /\ stop_pc = "idle"
    /\ signals = <<>>
    /\ stop_ret = "none"
    /\ stops = 0

\* everything the orchestration engine does not touch
outsideEngine ==
    <<ivVars, acpVars, syncVars, sessVars, graphVars, cancelVars, wrapperVars>>

\* everything the intervention registry does not touch
outsideIntervention ==
    <<vars, acpVars, syncVars, sessVars, graphVars, cancelVars, wrapperVars>>

\* everything the ACP connection does not touch
outsideAcp ==
    <<vars, ivVars, syncVars, sessVars, graphVars, cancelVars, wrapperVars>>

\* everything the sync bus does not touch
outsideSync ==
    <<vars, ivVars, acpVars, sessVars, graphVars, cancelVars, wrapperVars>>

\* everything the session manager does not touch
outsideSession ==
    <<vars, ivVars, acpVars, syncVars, graphVars, cancelVars, wrapperVars>>

\* everything the dependency graph does not touch
outsideGraph ==
    <<vars, ivVars, acpVars, syncVars, sessVars, cancelVars, wrapperVars>>

\* everything a CLI wrapper does not touch
outsideWrapper ==
    <<vars, ivVars, acpVars, syncVars, sessVars, graphVars, cancelVars>>

----------------------------------------------------------------------------
(* Helpers over the plan *)

TaskSet == {tasks[i] : i \in 1..Len(tasks)}

DepSet(t) == {dependencies[t][i] : i \in 1..Len(dependencies[t])}

\* ExecutionPlan.get_task(task_id) is not None
get_task(id) == id \in TaskSet

----------------------------------------------------------------------------
(* OrchestratorEngine._calculate_phases *)

RECURSIVE calculate_phases_loop(_, _, _)
calculate_phases_loop(remaining, completed, acc) ==
    IF remaining = {} THEN acc
    ELSE LET ready == {t \in remaining :
                          \A d \in DepSet(t) : d \in completed}
         IN  IF ready = {} THEN acc
             ELSE calculate_phases_loop(remaining \ ready,
                                        completed \cup ready,
                                        Append(acc, ready))

calculate_phases ==
    IF tasks = <<>> THEN <<>> ELSE calculate_phases_loop(TaskSet, {}, <<>>)

----------------------------------------------------------------------------
(* OrchestratorEngine.create_plan *)

\* a create_plan that sets the state of new (pending) tasks only
initial_state_pending_only(t, old) ==
    IF old # "pending" THEN old
    ELSE IF dependencies[t] = <<>> THEN "ready" ELSE "waiting_deps"

\* lines 226-230: the state create_plan gives task t, whose state was old
initial_state(t, old) ==
    IF dependencies[t] = <<>> THEN "ready" ELSE "waiting_deps"

Idle == pc \in {"new", "planned", "returned"}

create_plan(s) ==
    /\ Idle
    /\ calls < MaxCalls
    /\ strategy' = s
    /\ phases' = calculate_phases
    /\ state' = [t \in TaskSet |-> initial_state(t, state[t])]
    /\ plans' = TRUE
    /\ pc' = "planned"
    /\ ret' = "none"
    /\ calls' = calls + 1
    /\ UNCHANGED <<tasks, dependencies, result, error, retry_count, idle, idx,
                   parVars, review_state>>

----------------------------------------------------------------------------
(* OrchestratorEngine._get_agent_for_task *)

\* the role of a plan task
task_role(t) == "backend"

\* an agent of the session has the role and status idle
get_agent_for_task(role) == role \in idle

----------------------------------------------------------------------------
(* OrchestratorEngine._update_dependent_tasks: the task states after the *)
(* walk over plan.tasks for completed_task = c, from the states st        *)

update_dependent_tasks(st, c) ==
    [t \in TaskSet |->
        IF /\ c \in DepSet(t)
           /\ \A d \in DepSet(t) : get_task(d) /\ st[d] = "completed"
           /\ st[t] = "waiting_deps"
        THEN "ready"
        ELSE st[t]]

----------------------------------------------------------------------------
(* OrchestratorEngine._wait_for_dependencies: one pass of its loop over   *)
(* task.dependencies, in list order                                        *)

RECURSIVE scan_dependencies(_)
scan_dependencies(ds) ==
    IF ds = <<>> THEN [kind |-> "all_completed", dep |-> "none"]
    ELSE LET d == Head(ds)
         IN  IF ~get_task(d) THEN [kind |-> "missing", dep |-> d]
             ELSE IF state[d] # "completed"
                  THEN [kind |-> "not_completed", dep |-> d]
             ELSE IF state[d] = "failed"
                  THEN [kind |-> "dep_failed", dep |-> d]
             ELSE scan_dependencies(Tail(ds))

\* an alternative: a wait that returns True without looking at the
\* dependencies
wait_ignoring_dependencies(t) == [kind |-> "all_completed", dep |-> "none"]

wait_for_dependencies(t) ==
    IF dependencies[t] = <<>>
    THEN [kind |-> "all_completed", dep |-> "none"]
    ELSE scan_dependencies(dependencies[t])

----------------------------------------------------------------------------
(* TaskExecutor.execute *)

\* line 118: the task is running while the agent works on the prompt
execute_start(st, t) == [st EXCEPT ![t] = "running"]

\* lines 143-154: the state after an execution that raised, given the
\* incremented retry count
state_after_failure(count) ==
    IF count < max_retries THEN "retrying" ELSE "failed"

\* lines 136-137: the error field after an execution that succeeded
error_after_success(old) == old

----------------------------------------------------------------------------
(* OrchestratorEngine.execute_plan and its handlers *)

Return(v) ==
    /\ pc' = "returned"
    /\ ret' = v

\* _execute_auto: has_deps
has_deps == \E t \in TaskSet : dependencies[t] # <<>>

\* execute_plan: the call, up to the first step of the handler it selects
execute_plan_within(limit) ==
    /\ pc \in {"planned", "returned"}
    /\ calls < limit
    /\ calls' = calls + 1
    /\ ret' = "none"
    /\ review_state' = [t \in TaskSet |-> "none"]
    /\ IF strategy = "parallel" \/ (strategy = "auto" /\ has_deps)
       THEN /\ pc' = "par"
            /\ completed_tasks' = {}
            /\ failed' = FALSE
            /\ idx' = 0
       ELSE /\ pc' = "seq"
            /\ idx' = 1
            /\ UNCHANGED <<completed_tasks, failed>>
    /\ UNCHANGED <<planVars, taskVars, idle, batch, inflight, results_ok>>

execute_plan == execute_plan_within(MaxCalls)

\* what follows _execute_sequential returning True
sequential_done ==
    IF strategy = "review"
    THEN /\ pc' = "review"
         /\ idx' = 1
         /\ ret' = "none"
    ELSE /\ Return("true")
         /\ idx' = 0

\* _execute_sequential, lines 270-281: the loop reaches its next task, waits
\* for its dependencies, takes an agent and enters executor.execute
seq_dispatch ==
    /\ pc = "seq"
    /\ IF idx > Len(tasks)
       THEN /\ sequential_done
            /\ UNCHANGED taskVars
       ELSE LET t == tasks[idx]
                w == wait_for_dependencies(t)
            IN  CASE w.kind = "missing" ->
                       /\ Return("false")
                       /\ UNCHANGED <<taskVars, idx>>
                  [] w.kind = "dep_failed" ->
                       /\ state' = [state EXCEPT ![t] = "cancelled"]
                       /\ error' = [error EXCEPT
                                      ![t] = "Dependency failed: " \o w.dep]
                       /\ Return("false")
                       /\ UNCHANGED <<result, retry_count, idx>>
                  [] w.kind = "not_completed" ->
                       /\ pc' = "seq_wait"
                       /\ UNCHANGED <<taskVars, idx, ret>>
                  [] w.kind = "all_completed" ->
                       IF get_agent_for_task(task_role(t))
                       THEN /\ state' = execute_start(state, t)
                            /\ pc' = "seq_run"
                            /\ UNCHANGED <<result, error, retry_count, idx,
                                           ret>>
                       ELSE /\ state' = [state EXCEPT ![t] = "failed"]
                            /\ error' = [error EXCEPT
                                 ![t] = "No agent available for role"]
                            /\ Return("false")
                            /\ UNCHANGED <<result, retry_count, idx>>
    /\ UNCHANGED <<planVars, idle, parVars, review_state, calls>>

\* _wait_for_dependencies, lines 404-410: the dependencies did not complete
\* while the task polled; after the timeout the task fails
seq_wait_timeout ==
    /\ pc = "seq_wait"
    /\ LET t == tasks[idx]
       IN  /\ wait_for_dependencies(t).kind = "not_completed"
           /\ state' = [state EXCEPT ![t] = "failed"]
           /\ error' = [error EXCEPT
                          ![t] = "Timeout waiting for dependencies"]
    /\ Return("false")
    /\ UNCHANGED <<planVars, result, retry_count, idle, idx, parVars,
                   review_state, calls>>

\* _execute_sequential, lines 281-286: executor.execute returns
seq_finish(ok) ==
    /\ pc = "seq_run"
    /\ LET t == tasks[idx]
       IN  IF ok
           THEN /\ result' = [result EXCEPT ![t] = "text"]
                /\ error' = [error EXCEPT ![t] = error_after_success(@)]
                /\ state' = update_dependent_tasks(
                                [state EXCEPT ![t] = "completed"], t)
                /\ UNCHANGED retry_count
                /\ pc' = "seq"
                /\ idx' = idx + 1
                /\ UNCHANGED ret
           ELSE LET count == retry_count[t] + 1
                    after == [state EXCEPT ![t] = state_after_failure(count)]
                IN  /\ error' = [error EXCEPT ![t] = "exception"]
                    /\ retry_count' = [retry_count EXCEPT ![t] = count]
                    /\ UNCHANGED result
                    /\ IF after[t] = "failed"
                       THEN /\ state' = after
                            /\ Return("false")
                            /\ UNCHANGED idx
                       ELSE /\ state' = update_dependent_tasks(after, t)
                            /\ pc' = "seq"
                            /\ idx' = idx + 1
                            /\ UNCHANGED ret
    /\ UNCHANGED <<planVars, idle, parVars, review_state, calls>>

\* _execute_parallel, lines 299-307 and 331: the head of the while loop
par_loop ==
    /\ pc = "par"
    /\ IF Cardinality(completed_tasks) < Len(tasks) /\ ~failed
       THEN LET ready_tasks == {t \in TaskSet : state[t] = "ready"
                                               /\ t \notin completed_tasks}
            IN  IF ready_tasks = {}
                THEN /\ pc' = "par_sleep"
                     /\ UNCHANGED <<batch, results_ok, ret>>
                ELSE /\ pc' = "par_gather"
                     /\ batch' = ready_tasks
                     /\ results_ok' = TRUE
                     /\ UNCHANGED ret
       ELSE /\ Return(IF failed THEN "false" ELSE "true")
            /\ UNCHANGED <<batch, results_ok>>
    /\ UNCHANGED <<planVars, taskVars, idle, idx, completed_tasks, failed,
                   inflight, review_state, calls>>

\* _execute_parallel, lines 306-307: asyncio.sleep(0.1) ends, continue
par_wake ==
    /\ pc = "par_sleep"
    /\ pc' = "par"
    /\ UNCHANGED <<planVars, taskVars, idle, idx, parVars, review_state, ret,
                   calls>>

\* execute_task, lines 310-316: one gathered coroutine takes an agent and
\* enters executor.execute
par_dispatch(t) ==
    /\ pc = "par_gather"
    /\ t \in batch
    /\ batch' = batch \ {t}
    /\ IF get_agent_for_task(task_role(t))
       THEN /\ state' = execute_start(state, t)
            /\ inflight' = inflight \cup {t}
            /\ UNCHANGED results_ok
       ELSE /\ state' = [state EXCEPT ![t] = "failed"]
            /\ results_ok' = FALSE
            /\ UNCHANGED inflight
    /\ UNCHANGED <<planVars, result, error, retry_count, idle, pc, idx,
                   completed_tasks, failed, review_state, ret, calls>>

\* execute_task, lines 316-322: executor.execute returns in one coroutine
par_finish(t, ok) ==
    /\ pc = "par_gather"
    /\ t \in inflight
    /\ inflight' = inflight \ {t}
    /\ IF ok
       THEN /\ result' = [result EXCEPT ![t] = "text"]
            /\ error' = [error EXCEPT ![t] = error_after_success(@)]
            /\ state' = update_dependent_tasks(
                            [state EXCEPT ![t] = "completed"], t)
            /\ completed_tasks' = completed_tasks \cup {t}
            /\ UNCHANGED <<retry_count, results_ok>>
       ELSE LET count == retry_count[t] + 1
            IN  /\ error' = [error EXCEPT ![t] = "exception"]
                /\ retry_count' = [retry_count EXCEPT ![t] = count]
                /\ state' = [state EXCEPT ![t] = state_after_failure(count)]
                /\ results_ok' =
                       (results_ok /\ state_after_failure(count) # "failed")
                /\ UNCHANGED <<result, completed_tasks>>
    /\ UNCHANGED <<planVars, idle, pc, idx, failed, batch, review_state, ret,
                   calls>>

\* _execute_parallel, lines 324-329: asyncio.gather returns
par_gathered ==
    /\ pc = "par_gather"
    /\ batch = {}
    /\ inflight = {}
    /\ failed' = IF results_ok THEN failed ELSE TRUE
    /\ pc' = "par"
    /\ UNCHANGED <<planVars, taskVars, idle, idx, completed_tasks, batch,
                   inflight, results_ok, review_state, ret, calls>>

\* _execute_with_review, lines 342-360: the review of the task at idx; a
\* review task is built for a completed task and executed when a reviewer
\* agent is idle (o is what its execution does to review_<id>)
review_step(o) ==
    /\ pc = "review"
    /\ IF idx > Len(tasks)
       THEN /\ Return("true")
            /\ idx' = 0
            /\ UNCHANGED review_state
       ELSE LET t == tasks[idx]
            IN  /\ idx' = idx + 1
                /\ UNCHANGED <<pc, ret>>
                /\ IF state[t] = "completed" /\ get_agent_for_task("reviewer")
                   THEN review_state' = [review_state EXCEPT ![t] = o]
                   ELSE UNCHANGED review_state
    /\ UNCHANGED <<planVars, taskVars, idle, parVars, calls>>

----------------------------------------------------------------------------
(* The session's agents: their status changes outside the engine *)

agent_status_change(r) ==
    /\ idle' = IF r \in idle THEN idle \ {r} ELSE idle \cup {r}
    /\ UNCHANGED <<planVars, taskVars, pc, idx, parVars, review_state, ret,
                   calls>>

----------------------------------------------------------------------------
Init ==
    /\ tasks \in TaskLists
    /\ dependencies \in [TaskSet -> DepLists]
    /\ state = [t \in TaskSet |-> "pending"]
    /\ result = [t \in TaskSet |-> "none"]
    /\ error = [t \in TaskSet |-> "none"]
    /\ retry_count = [t \in TaskSet |-> 0]
    /\ strategy = "none"
    /\ phases = <<>>
    /\ plans = FALSE
    /\ idle \in SUBSET Roles
    /\ pc = "new"
    /\ idx = 0
    /\ completed_tasks = {}
    /\ failed = FALSE
    /\ batch = {}
    /\ inflight = {}
    /\ results_ok = TRUE
    /\ review_state = [t \in TaskSet |-> "none"]
    /\ ret = "none"
    /\ calls = 0

\* the steps of a running execute_plan
EngineNext ==
    \/ seq_dispatch /\ UNCHANGED outsideEngine
    \/ seq_wait_timeout /\ UNCHANGED outsideEngine
    \/ \E ok \in BOOLEAN : seq_finish(ok) /\ UNCHANGED outsideEngine
    \/ par_loop /\ UNCHANGED outsideEngine
    \/ par_wake /\ UNCHANGED outsideEngine
    \/ \E t \in TaskSet : par_dispatch(t) /\ UNCHANGED outsideEngine
    \/ \E t \in TaskSet, ok \in BOOLEAN :
          par_finish(t, ok) /\ UNCHANGED outsideEngine
    \/ par_gathered /\ UNCHANGED outsideEngine
    \/ \E o \in {"completed", "retrying"} :
          review_step(o) /\ UNCHANGED outsideEngine

Next ==
    \/ \E s \in Strategies : create_plan(s) /\ UNCHANGED outsideEngine
    \/ execute_plan /\ UNCHANGED outsideEngine
    \/ EngineNext
    \/ \E r \in Roles : agent_status_change(r) /\ UNCHANGED outsideEngine

\* the engine alone: the other components stay as constructed
\* the engine with its task objects, beside the other components as constructed
EngineStart ==
    /\ Init /\ InterventionInit /\ AcpInit /\ SyncInit /\ SessionInit
    /\ GraphInit /\ CancelInit /\ WrapperInit

Spec == EngineStart /\ [][Next]_<<vars, outsideEngine>>

\* the event loop resumes the coroutine of a running execute_plan whenever
\* it can take a step
FairSpec == Spec /\ WF_vars(EngineNext)

----------------------------------------------------------------------------
(* Executing a plan again and again *)

RetryStart == EngineStart /\ Len(tasks) <= MaxRetryTasks

RetryNext ==
    \/ \E s \in Strategies : create_plan(s) /\ UNCHANGED outsideEngine
    \/ execute_plan_within(MaxRetryCalls) /\ UNCHANGED outsideEngine
    \/ EngineNext
    \/ \E r \in Roles : agent_status_change(r) /\ UNCHANGED outsideEngine

\* the engine with execute_plan called up to four times on a short plan
RetrySpec == RetryStart /\ [][RetryNext]_<<vars, outsideEngine>>

----------------------------------------------------------------------------
(* _wait_for_dependencies over the states a plan's tasks can be found in *)

\* the states the other tasks of the plan are found in when a wait starts:
\* the task objects are shared with the caller and with every other
\* execute_plan running on the same plan
WaitStates == {"waiting_deps", "ready", "running", "completed", "failed",
               "retrying"}

\* _execute_sequential is about to call _wait_for_dependencies for the task
\* at idx
WaitStart ==
    /\ tasks \in TaskLists
    /\ tasks # <<>>
    /\ Len(tasks) <= MaxRetryTasks
    /\ dependencies \in [TaskSet -> DepLists]
    /\ state \in [TaskSet -> WaitStates]
    /\ result = [t \in TaskSet |->
                    IF state[t] = "completed" THEN "text" ELSE "none"]
    /\ error = [t \in TaskSet |->
                   IF state[t] \in {"failed", "retrying"} THEN "exception"
                   ELSE "none"]
    /\ retry_count = [t \in TaskSet |->
                         IF state[t] = "failed" THEN max_retries
                         ELSE IF state[t] = "retrying" THEN 1 ELSE 0]
    /\ strategy = "sequential"
    /\ phases = calculate_phases
    /\ plans = TRUE
    /\ idle \in SUBSET Roles
    /\ pc = "seq"
    /\ idx \in 1..Len(tasks)
    /\ completed_tasks = {}
    /\ failed = FALSE
    /\ batch = {}
    /\ inflight = {}
    /\ results_ok = TRUE
    /\ review_state = [t \in TaskSet |-> "none"]
    /\ ret = "none"
    /\ calls = 2
    /\ InterventionInit /\ AcpInit /\ SyncInit /\ SessionInit
    /\ GraphInit /\ CancelInit /\ WrapperInit

WaitNext ==
    \/ seq_dispatch /\ UNCHANGED outsideEngine
    \/ seq_wait_timeout /\ UNCHANGED outsideEngine
    \/ \E ok \in BOOLEAN : seq_finish(ok) /\ UNCHANGED outsideEngine

\* the rest of a sequential execution from such a wait on
WaitSpec == WaitStart /\ [][WaitNext]_<<vars, outsideEngine>>

----------------------------------------------------------------------------
(* OrchestratorEngine.cancel and TaskExecutor.cancel *)

\* the keys of TaskExecutor._running_tasks: the dict is created empty in
\* __init__ and no code ever stores a task in it
running_tasks == {}

\* TaskExecutor.cancel(task_id): cancels the asyncio task registered under
\* the id and forgets it; the task object's state is not written
executor_cancel(st, registered) == st

\* OrchestratorEngine.cancel(session_id), called while execute_plan runs
cancel ==
    /\ ~Idle
    /\ ~cancel_called
    /\ cancel_called' = TRUE
    /\ state' = executor_cancel(state, running_tasks)
    /\ UNCHANGED <<tasks, dependencies, result, error, retry_count, strategy,
                   phases, plans, idle, pc, idx, completed_tasks, failed,
                   batch, inflight, results_ok, review_state, ret, calls>>

\* a later execute_plan is a new execution
execute_plan_again ==
    /\ execute_plan
    /\ cancel_called' = FALSE
    /\ UNCHANGED <<ivVars, acpVars, syncVars, sessVars, graphVars, wrapperVars>>

CancelNext ==
    \/ \E s \in Strategies : create_plan(s) /\ UNCHANGED outsideEngine
    \/ execute_plan_again
    \/ EngineNext
    \/ \E r \in Roles : agent_status_change(r) /\ UNCHANGED outsideEngine
    \/ cancel /\ UNCHANGED <<ivVars, acpVars, syncVars, sessVars, graphVars,
                              wrapperVars>>

\* the engine with cancel calls arriving while a plan executes
CancelSpec == EngineStart /\ [][CancelNext]_<<vars, outsideEngine>>

TypeOK ==
    /\ tasks \in TaskLists
    /\ dependencies \in [TaskSet -> DepLists]
    /\ state \in [TaskSet -> TaskStates]
    /\ result \in [TaskSet -> {"none", "text"}]
    /\ retry_count \in [TaskSet -> 0..MaxCalls]
    /\ strategy \in Strategies \cup {"none"}
    /\ plans \in BOOLEAN
    /\ idle \subseteq Roles
    /\ pc \in {"new", "planned", "seq", "seq_wait", "seq_run", "par",
               "par_sleep", "par_gather", "review", "returned"}
    /\ idx \in 0..(MaxTasks + 1)
    /\ completed_tasks \subseteq TaskSet
    /\ batch \subseteq TaskSet
    /\ inflight \subseteq TaskSet
    /\ failed \in BOOLEAN
    /\ results_ok \in BOOLEAN
    /\ review_state \in [TaskSet -> {"none", "completed", "retrying"}]
    /\ ret \in {"none", "true", "false"}
    /\ calls \in 0..MaxCalls

----------------------------------------------------------------------------
(* HumanInterventionSystem: its operations *)

\* the registry state an operation works on
registry == [points |-> points, waiting_futures |-> waiting_futures,
             futures |-> futures]

registered == DOMAIN points

\* dict.pop(key, None): the dict without the key
pop(d, k) == [x \in DOMAIN d \ {k} |-> d[x]]

\* InterventionPoint.is_expired
is_expired(point) ==
    IF point.deadline = "none" THEN FALSE ELSE point.deadline = "passed"

\* future = self._waiting_futures.pop(id, None);
\* if future and not future.done(): future.set_result(point)
notify_waiting_future(R, id) ==
    [R EXCEPT
        !.waiting_futures = pop(R.waiting_futures, id),
        !.futures =
            IF /\ id \in DOMAIN R.waiting_futures
               /\ R.waiting_futures[id] \in Waiters
               /\ R.futures[R.waiting_futures[id]] = "pending"
            THEN [R.futures EXCEPT ![R.waiting_futures[id]] = "result"]
            ELSE R.futures]

\* the status resolve gives for an action
status_for_action(action) ==
    CASE action = "approve" -> "approved"
      [] action = "reject" -> "rejected"
      [] action = "modify" -> "modified"
      [] OTHER -> "approved"

\* an enum that answers every name
enum_member_found(value) == value

\* the value of InterventionStatus.<NAME>: the member, or AttributeError
\* when the enum has no such member
enum_member(value) ==
    IF value \in InterventionStatus THEN value ELSE "AttributeError"

\* HumanInterventionSystem.resolve on the registry R: the registry it leaves
\* and how the call ends ("None", "point", or the exception raised)
resolve_call(R, id, action, by) ==
    IF id \notin DOMAIN R.points
    THEN [R |-> R, outcome |-> "None"]
    ELSE IF "AttributeError" \in {enum_member("resolved"),
                                  enum_member("cancelled")}
    THEN [R |-> R, outcome |-> "AttributeError"]
    ELSE IF R.points[id].status \in {enum_member("resolved"),
                                     enum_member("cancelled")}
    THEN [R |-> R, outcome |-> "point"]
    ELSE [R |-> notify_waiting_future(
                    [R EXCEPT !.points[id] =
                        [@ EXCEPT !.status = status_for_action(action),
                                  !.resolved_at = TRUE,
                                  !.resolved_by = by,
                                  !.resolution = action]],
                    id),
          outcome |-> "point"]

\* HumanInterventionSystem._handle_expired
handle_expired(R, id) ==
    notify_waiting_future([R EXCEPT !.points[id].status = "expired"], id)

\* the "expensive_ops" policy of _add_default_policies, the only default
\* policy with auto_approve_after
expensive_ops ==
    [trigger_conditions |->
         <<[field |-> "estimated_cost", operator |-> "greater_than",
            value |-> 100]>>,
     auto_approve_after |-> 300]

\* point.context: the first request_approval is made without a context, the
\* later ones with the estimated cost of an expensive operation
context_of(id) ==
    IF id = PointIds[1] THEN <<>> ELSE [estimated_cost |-> 200]

\* InterventionPolicy._check_condition; context.get(field) is None for a
\* field the context lacks
check_condition(condition, context) ==
    LET present == condition.field \in DOMAIN context IN
    CASE condition.operator = "equals" ->
           present /\ context[condition.field] = condition.value
      [] condition.operator = "not_equals" ->
           ~present \/ context[condition.field] # condition.value
      [] condition.operator = "greater_than" ->
           present /\ context[condition.field] > condition.value
      [] condition.operator = "less_than" ->
           present /\ context[condition.field] < condition.value
      [] OTHER -> FALSE

\* InterventionPolicy.should_intervene
should_intervene(policy, context) ==
    \E i \in 1..Len(policy.trigger_conditions) :
       check_condition(policy.trigger_conditions[i], context)

\* the for loop of one pass of _monitor_loop over the snapshot
\* list(self._interventions.values()), from its i-th entry: the registry it
\* leaves, whether an exception ended the pass, and the point whose
\* auto-approval raised it
RECURSIVE monitor_scan(_, _, _)
monitor_scan(R, snapshot, i) ==
    IF i > Len(snapshot) THEN [R |-> R, raised |-> FALSE, at |-> "none"]
    ELSE
      LET id == snapshot[i] IN
      IF R.points[id].status # "waiting_for_human"
      THEN monitor_scan(R, snapshot, i + 1)
      ELSE
        LET R1 == IF is_expired(R.points[id]) THEN handle_expired(R, id)
                  ELSE R
        IN
        IF policies /\ R1.points[id].overdue
        THEN LET r == resolve_call(R1, id, "auto_approve", "system") IN
             IF r.outcome = "AttributeError"
             THEN [R |-> R1, raised |-> TRUE, at |-> id]
             ELSE monitor_scan(r.R, snapshot, i + 1)
        ELSE monitor_scan(R1, snapshot, i + 1)

\* the intervention points that are waiting with their deadline passed
due_points ==
    {id \in registered :
        /\ points[id].status = "waiting_for_human"
        /\ points[id].deadline = "passed"}

set_registry(R) ==
    /\ points' = R.points
    /\ waiting_futures' = R.waiting_futures
    /\ futures' = R.futures

\* HumanInterventionSystem.initialize
initialize ==
    /\ monitor # "running"
    /\ monitor' = "running"
    /\ policies' = TRUE
    /\ observed(NoResolve, NoPass, NoWait)
    /\ UNCHANGED <<interventions, points, waiting_futures, futures, waiter>>

\* HumanInterventionSystem.close
close ==
    /\ monitor' = IF monitor = "running" THEN "cancelled" ELSE monitor
    /\ futures' = [w \in Waiters |->
                      IF /\ \E id \in DOMAIN waiting_futures :
                                waiting_futures[id] = w
                         /\ futures[w] = "pending"
                      THEN "cancelled" ELSE futures[w]]
    /\ waiting_futures' = <<>>
    /\ observed(NoResolve, NoPass, NoWait)
    /\ UNCHANGED <<interventions, points, waiter, policies>>

\* HumanInterventionSystem.request_approval with or without a timeout, and
\* _register_intervention
request_approval(has_timeout) ==
    /\ Len(interventions) < MaxPoints
    /\ LET id == PointIds[Len(interventions) + 1] IN
       /\ interventions' = Append(interventions, id)
       /\ points' = (id :> [new_point(IF has_timeout THEN "future"
                                      ELSE "none")
                            EXCEPT !.status = "waiting_for_human"]) @@ points
    /\ observed(NoResolve, NoPass, NoWait)
    /\ UNCHANGED <<waiting_futures, futures, waiter, monitor, policies>>

\* HumanInterventionSystem.resolve, called from outside the registry
resolve(id, action, by) ==
    LET r == resolve_call(registry, id, action, by) IN
    /\ set_registry(r.R)
    /\ observed(
          [id |-> id, action |-> action, by |-> by,
           before |-> IF id \in registered THEN points[id] ELSE NoPoint,
           outcome |-> r.outcome,
           after |-> IF id \in registered THEN r.R.points[id] ELSE NoPoint,
           others_changed |->
               \E o \in registered \ {id} : r.R.points[o] # points[o]],
          NoPass, NoWait)
    /\ UNCHANGED <<interventions, waiter, monitor, policies>>

\* HumanInterventionSystem.wait_for_resolution, up to its await; its timeout
\* argument decides only whether wait_times_out can happen later
wait_for_resolution(w, id) ==
    /\ waiter[w].pc = "idle"
    /\ IF id \notin registered
       THEN /\ observed(NoResolve, NoPass,
                        [w |-> w, id |-> id, got |-> "None"])
            /\ UNCHANGED <<waiter, waiting_futures, futures>>
       ELSE IF points[id].status \in
                 {"approved", "rejected", "modified", "overridden"}
       THEN /\ observed(NoResolve, NoPass,
                        [w |-> w, id |-> id, got |-> "point"])
            /\ UNCHANGED <<waiter, waiting_futures, futures>>
       ELSE /\ waiter' = [waiter EXCEPT ![w] =
                            [pc |-> "blocked", id |-> id,
                             on_waiting |->
                                 points[id].status = "waiting_for_human"]]
            /\ futures' = [futures EXCEPT ![w] = "pending"]
            /\ waiting_futures' = (id :> w) @@ pop(waiting_futures, id)
            /\ observed(NoResolve, NoPass, NoWait)
    /\ UNCHANGED <<interventions, points, monitor, policies>>

\* wait_for_resolution resumes: its future has a result or was cancelled
wait_resumes(w) ==
    /\ waiter[w].pc = "blocked"
    /\ futures[w] \in {"result", "cancelled"}
    /\ waiter' = [waiter EXCEPT ![w] = NotWaiting]
    /\ futures' = [futures EXCEPT ![w] = "none"]
    /\ observed(NoResolve, NoPass,
                [w |-> w, id |-> waiter[w].id,
                 got |-> IF futures[w] = "result" THEN "point"
                         ELSE "CancelledError"])
    /\ UNCHANGED <<interventions, points, waiting_futures, monitor, policies>>

\* a wait_for_resolution called with a timeout: asyncio.wait_for gives up,
\* the future is cancelled and the call returns None
wait_times_out(w) ==
    /\ waiter[w].pc = "blocked"
    /\ futures[w] = "pending"
    /\ futures' = [futures EXCEPT ![w] = "none"]
    /\ waiting_futures' = [id \in DOMAIN waiting_futures |->
                              IF waiting_futures[id] = w THEN "done"
                              ELSE waiting_futures[id]]
    /\ waiter' = [waiter EXCEPT ![w] = NotWaiting]
    /\ observed(NoResolve, NoPass,
                [w |-> w, id |-> waiter[w].id, got |-> "None"])
    /\ UNCHANGED <<interventions, points, monitor, policies>>

\* one pass of _monitor_loop, after its sleep
monitor_pass ==
    /\ monitor = "running"
    /\ LET r == monitor_scan(registry, interventions, 1) IN
       /\ set_registry(r.R)
       /\ observed(NoResolve,
                   [ran |-> TRUE, raised |-> r.raised, due |-> due_points],
                   NoWait)
    /\ UNCHANGED <<interventions, waiter, monitor, policies>>

\* time passes: utcnow() gets beyond a point's deadline
deadline_passes(id) ==
    /\ id \in registered
    /\ points[id].deadline = "future"
    /\ points' = [points EXCEPT ![id].deadline = "passed"]
    /\ observed(NoResolve, NoPass, NoWait)
    /\ UNCHANGED <<interventions, waiting_futures, futures, waiter, monitor,
                   policies>>

\* time passes: more than auto_approve_after seconds since the point's
\* created_at, so also since the created_at of every point made before it
auto_approve_after_passes(id) ==
    /\ id \in registered
    /\ ~points[id].overdue
    /\ \A i \in 1..Len(interventions) :
          interventions[i] = id =>
              \A j \in 1..(i - 1) : points[interventions[j]].overdue
    /\ points' = [points EXCEPT ![id].overdue = TRUE]
    /\ observed(NoResolve, NoPass, NoWait)
    /\ UNCHANGED <<interventions, waiting_futures, futures, waiter, monitor,
                   policies>>

\* the engine before any plan, with no agents
EngineIdle == Init /\ tasks = <<>> /\ idle = {}

\* every component as constructed, nothing started
AllConstructed ==
    /\ EngineIdle /\ InterventionInit /\ AcpInit /\ SyncInit /\ SessionInit
    /\ GraphInit /\ CancelInit /\ WrapperInit

InterventionNext ==
    \/ initialize /\ UNCHANGED outsideIntervention
    \/ close /\ UNCHANGED outsideIntervention
    \/ \E t \in BOOLEAN : request_approval(t) /\ UNCHANGED outsideIntervention
    \/ \E id \in CallIds, a \in ResolveActions, by \in {"human"} :
          resolve(id, a, by) /\ UNCHANGED outsideIntervention
    \/ \E w \in Waiters, id \in CallIds :
          wait_for_resolution(w, id) /\ UNCHANGED outsideIntervention
    \/ \E w \in Waiters : wait_resumes(w) /\ UNCHANGED outsideIntervention
    \/ \E w \in Waiters : wait_times_out(w) /\ UNCHANGED outsideIntervention
    \/ monitor_pass /\ UNCHANGED outsideIntervention
    \/ \E id \in PointPool : deadline_passes(id) /\ UNCHANGED outsideIntervention
    \/ \E id \in PointPool : auto_approve_after_passes(id) /\ UNCHANGED outsideIntervention

\* the intervention registry alone
InterventionSpec ==
    /\ AllConstructed
    /\ [][InterventionNext]_<<ivVars, outsideIntervention>>

InterventionTypeOK ==
    /\ registered = {interventions[i] : i \in 1..Len(interventions)}
    /\ \A id \in registered :
          /\ points[id].status \in InterventionStatus
          /\ points[id].deadline \in {"none", "future", "passed"}
    /\ DOMAIN waiting_futures \subseteq registered
    /\ \A id \in DOMAIN waiting_futures :
          waiting_futures[id] \in Waiters \cup {"done"}
    /\ futures \in [Waiters -> {"none", "pending", "result", "cancelled"}]
    /\ \A w \in Waiters : (waiter[w].pc = "blocked") = (futures[w] # "none")
    /\ monitor \in {"none", "running", "cancelled"}
    /\ policies \in BOOLEAN

----------------------------------------------------------------------------
(* Properties *)

Terminal == {"completed", "failed", "cancelled"}

AllCompleted == \A t \in TaskSet : state[t] = "completed"

\* the tasks of the plan that t depends on, directly or through other tasks
RECURSIVE dependency_closure(_, _)
dependency_closure(S, n) ==
    IF n = 0 THEN S
    ELSE dependency_closure(
             S \cup UNION {DepSet(u) : u \in S \cap TaskSet}, n - 1)

TransitiveDependencies(t) == dependency_closure(DepSet(t), MaxTasks)

HasCycle == \E t \in TaskSet : t \in TransitiveDependencies(t)

\* C1: when execute_plan has returned, it returned success if and only if
\* every task of the plan is completed.
C1_SuccessIffAllCompleted ==
    pc = "returned" => ((ret = "true") <=> AllCompleted)

\* C2: a task whose execution raised below max_retries is executed again in
\* the same run, so when execute_plan has returned no task is left retrying.
C2_RetryingIsRequeued ==
    pc = "returned" => \A t \in TaskSet : state[t] # "retrying"

\* C3: when execute_plan has returned under the parallel strategy, every
\* task is in a terminal state (completed, failed or cancelled).
C3_ParallelEndsAllTerminal ==
    (pc = "returned" /\ strategy = "parallel") =>
        \A t \in TaskSet : state[t] \in Terminal

\* C3, the termination half: under the parallel strategy a running
\* execute_plan eventually returns (a property of FairSpec).
C3_ParallelReturns ==
    (pc = "par") ~> (pc = "returned")

\* C4: when execute_plan has returned under the parallel strategy, the
\* cancelled tasks are exactly those that transitively depend on a failed
\* task, each with error "Dependency failed: <id of a failed task>".
C4_ParallelFailureCascades ==
    (pc = "returned" /\ strategy = "parallel") =>
        \A t \in TaskSet :
            LET failedDeps == {f \in TransitiveDependencies(t) \cap TaskSet :
                                  state[f] = "failed"}
            IN  /\ failedDeps # {} =>
                     /\ state[t] = "cancelled"
                     /\ \E f \in failedDeps :
                            error[t] = "Dependency failed: " \o f
                /\ state[t] = "cancelled" => failedDeps # {}

\* C5: after create_plan, every task id is in exactly one phase, the phases
\* hold task ids only, and every dependency of a task of phase k is in a
\* phase before k.
C5_PhasesPartitionTasks ==
    pc = "planned" =>
        /\ UNION {phases[k] : k \in 1..Len(phases)} = TaskSet
        /\ \A t \in TaskSet :
               Cardinality({k \in 1..Len(phases) : t \in phases[k]}) = 1
        /\ \A k \in 1..Len(phases) : \A t \in phases[k] :
               \A d \in DepSet(t) : \E j \in 1..(k - 1) : d \in phases[j]

\* C6: create_plan on tasks whose dependencies contain a cycle stores no
\* plan for the session.
C6_CycleRejected ==
    HasCycle => ~plans

\* C7: in every state of a plan, a task in state ready has all of its
\* dependencies in state completed.
C7_ReadyImpliesDepsCompleted ==
    plans =>
        \A t \in TaskSet :
            state[t] = "ready" =>
                \A d \in DepSet(t) : get_task(d) /\ state[d] = "completed"

\* C8: a task in state completed has a result and no error.
C8_CompletedHasResultNoError ==
    \A t \in TaskSet :
        state[t] = "completed" => (result[t] # "none" /\ error[t] = "none")

\* C9: after create_plan, a task with no dependencies is ready and a task
\* with dependencies is waiting_deps, whatever its state was before.
C9_CreatePlanSetsInitialStates ==
    pc = "planned" =>
        \A t \in TaskSet :
            /\ dependencies[t] = <<>> => state[t] = "ready"
            /\ dependencies[t] # <<>> => state[t] = "waiting_deps"

\* C9 witness: a second create_plan has reset a task that had failed
\* executions to ready and a task that had a result to waiting_deps.
C9_Witness ==
    /\ pc = "planned"
    /\ \E t \in TaskSet : retry_count[t] > 0 /\ state[t] = "ready"
    /\ \E u \in TaskSet : result[u] = "text" /\ state[u] = "waiting_deps"

\* a task the executing loop is about to dispatch: its dependency wait is
\* over (sequential) or its gathered coroutine has not started (parallel)
DueForDispatch(t) ==
    \/ /\ pc = "seq"
       /\ idx <= Len(tasks)
       /\ tasks[idx] = t
       /\ wait_for_dependencies(t).kind = "all_completed"
    \/ /\ pc = "par_gather"
       /\ t \in batch

\* C10: a ready task that is due for dispatch while no agent of its role is
\* idle stays ready.
C10_NoAgentStaysReady ==
    [][\A t \in TaskSet :
          (/\ DueForDispatch(t)
           /\ state[t] = "ready"
           /\ ~get_agent_for_task(task_role(t)))
          => state'[t] = "ready"]_vars

----------------------------------------------------------------------------
(* Properties of the intervention registry *)

\* the statuses a point ends in
TerminalStatus ==
    {"approved", "rejected", "modified", "overridden", "expired",
     "cancelled"}

\* C11: a resolve call on an existing waiting point returns the point with
\* the status its action stands for (approve: approved, reject: rejected,
\* modify: modified, anything else: approved) and with the resolver and the
\* resolution recorded; a resolve call on an unknown id returns None and
\* changes no point.
C11_ResolveSetsStatusByAction ==
    /\ last_resolve.before.status = "waiting_for_human" =>
          /\ last_resolve.outcome = "point"
          /\ last_resolve.after.status =
                 status_for_action(last_resolve.action)
          /\ last_resolve.after.resolved_by = last_resolve.by
          /\ last_resolve.after.resolution = last_resolve.action
    /\ (last_resolve.id # "none" /\ last_resolve.before = NoPoint) =>
          /\ last_resolve.outcome = "None"
          /\ ~last_resolve.others_changed

\* C12: of two resolve calls in a row on the same point, the first made
\* while it was waiting, the second returns the point and leaves it as the
\* first call resolved it, whatever its own action.
C12_SecondResolveIsNoOp ==
    [][(/\ last_resolve.before.status = "waiting_for_human"
        /\ last_resolve'.id = last_resolve.id)
       => /\ last_resolve'.outcome = "point"
          /\ last_resolve'.after = last_resolve'.before
          /\ last_resolve'.after.status =
                 status_for_action(last_resolve.action)]_ivVars

\* C13: a point that has a terminal status keeps that status in every step
\* (resolve calls and monitor passes included).
C13_StatusNeverRegresses ==
    [][\A id \in registered :
          points[id].status \in TerminalStatus =>
              points'[id].status = points[id].status]_ivVars

\* a resolve call has just ended on a point the monitor had marked expired
C13_Witness ==
    /\ last_resolve.before.status = "expired"
    /\ last_resolve.action = "approve"
    /\ \E id \in registered : points[id].overdue /\ policies

\* C14: after a monitor pass every point that was waiting with its deadline
\* passed is expired and its waiting future is gone; and a point is expired
\* only if it has a deadline and that deadline has passed.
C14_MonitorExpiresDuePoints ==
    /\ last_pass.ran =>
          \A id \in last_pass.due :
              /\ points[id].status = "expired"
              /\ id \notin DOMAIN waiting_futures
    /\ \A id \in registered :
          points[id].status = "expired" => points[id].deadline = "passed"

\* C15: no caller that blocked in wait_for_resolution on a waiting point is
\* still waiting for its future once that point has a terminal status.
C15_NoWaiterLeftBlocked ==
    \A w \in Waiters :
        (/\ waiter[w].pc = "blocked"
         /\ waiter[w].on_waiting
         /\ points[waiter[w].id].status \in TerminalStatus)
        => futures[w] # "pending"

----------------------------------------------------------------------------
(* ACPConnection: its operations *)

\* the prompt requests sent so far
PromptIds ==
    {id \in DOMAIN requests : requests[id].method = "prompts/request"}

\* the tool names an inbound tools/call request may carry
ToolNames == {"search", "other_tool"}

\* the tools the application has handlers for
HandledTools == {"search"}

\* the ids the agent gives its own requests
InboundIds == {MaxRequests + 1}

\* the lines the agent may write: a response to a request that was sent,
\* with a result or with an error; a request of its own (a method and an
\* id); a notification, written for one of the prompts or for none; a line
\* that is not JSON; a line that is JSON but no object: a bare number (null
\* behaves the same) or an array without the members "method" and "id"
Messages ==
    {[NoMessage EXCEPT !.kind = "request", !.id = id, !.method = "tools/call",
                       !.name = n] :
        id \in InboundIds, n \in ToolNames}
    \cup
    {[NoMessage EXCEPT !.kind = "request", !.id = id, !.method = m] :
        id \in InboundIds, m \in {"ping", "other"}}
    \cup
    {[NoMessage EXCEPT !.kind = k] : k \in {"json_number", "json_array"}}
    \cup
    {[NoMessage EXCEPT !.kind = "response", !.id = id, !.result = r,
                       !.about = id] :
        id \in DOMAIN requests, r \in BOOLEAN}
    \cup
    {[NoMessage EXCEPT !.kind = "notification", !.method = m, !.type = t,
                       !.about = a] :
        m \in {"notifications/message", "other"},
        t \in {"text", "completion"},
        a \in PromptIds \cup {0}}
    \cup
    {[NoMessage EXCEPT !.kind = "not_json"]}

\* the message _read_messages queues for a line that is not JSON
wrap_as_notification(m) ==
    [NoMessage EXCEPT !.kind = "notification",
                      !.method = "notifications/message"]

\* ACPConnection._parse_message: the type of the event, or "None"
parse_message(m) ==
    IF m.kind = "reader_error" \/ (m.kind = "response" /\ ~m.result)
    THEN "error"
    ELSE IF m.method = "notifications/message" THEN "message"
    ELSE IF m.method = "tools/call" THEN "tool_call"
    ELSE IF m.result THEN "tool_result"
    ELSE "None"

\* ACPConnection._is_completion_message
is_completion_message(m, id) ==
    \/ m.id = id /\ m.result
    \/ m.type = "completion"

\* ACPConnection._write_message: whether the line reaches the agent; on a
\* process that has exited the write raises
writes == process = "running"

a_reader_runs == read_task = "running" \/ leaked > 0

\* what the step that just happened shows
acp_replied(c, m, r) ==
    /\ last_call' = c
    /\ last_read' = m
    /\ last_reply' = r

acp_observed(c, m) == acp_replied(c, m, NoReply)

\* ACPConnection._send_request up to its await: the next id, the future in
\* _pending_requests, the message written
send_request(method) ==
    LET id == request_id + 1 IN
    /\ request_id' = id
    /\ pending_requests' = pending_requests \cup {id}
    /\ requests' = (id :> [method |-> method,
                           state |-> IF writes THEN "waiting" ELSE "raised",
                           events |-> <<>>]) @@ requests

\* ACPConnection.initialize up to its await
acp_initialize ==
    /\ IF initialized
       THEN /\ acp_observed([op |-> "initialize", outcome |-> "True",
                             wrote |-> FALSE], NoMessage)
            /\ UNCHANGED <<request_id, pending_requests, requests, read_task,
                           leaked>>
       ELSE /\ request_id < MaxRequests
            /\ leaked' = IF read_task = "running" THEN leaked + 1 ELSE leaked
            /\ read_task' = "running"
            /\ send_request("initialize")
            /\ acp_observed([op |-> "initialize",
                             outcome |-> IF writes THEN "sent"
                                         ELSE "ConnectionError",
                             wrote |-> writes], NoMessage)
    /\ UNCHANGED <<initialized, message_queue, process, lines, handshake>>
    /\ UNCHANGED tool_handlers

\* ACPConnection.call_tool up to its await
call_tool ==
    /\ IF ~initialized
       THEN /\ acp_observed([op |-> "call_tool",
                             outcome |-> "NotInitialized", wrote |-> FALSE],
                            NoMessage)
            /\ UNCHANGED <<request_id, pending_requests, requests>>
       ELSE /\ request_id < MaxRequests
            /\ send_request("tools/call")
            /\ acp_observed([op |-> "call_tool",
                             outcome |-> IF writes THEN "sent"
                                         ELSE "ConnectionError",
                             wrote |-> writes], NoMessage)
    /\ UNCHANGED <<initialized, message_queue, read_task, leaked, process,
                   lines, handshake>>
    /\ UNCHANGED tool_handlers

\* ACPConnection.send_prompt, from the first step of its iterator to the
\* start of its event collector
send_prompt ==
    /\ IF ~initialized
       THEN /\ acp_observed([op |-> "send_prompt",
                             outcome |-> "NotInitialized", wrote |-> FALSE],
                            NoMessage)
            /\ UNCHANGED <<request_id, requests>>
       ELSE /\ request_id < MaxRequests
            /\ request_id' = request_id + 1
            /\ requests' =
                  ((request_id + 1) :>
                      [method |-> "prompts/request",
                       state |-> IF writes THEN "streaming" ELSE "raised",
                       events |-> <<>>]) @@ requests
            /\ acp_observed([op |-> "send_prompt",
                             outcome |-> IF writes THEN "sent"
                                         ELSE "ConnectionError",
                             wrote |-> writes], NoMessage)
    /\ UNCHANGED <<initialized, pending_requests, message_queue, read_task,
                   leaked, process, lines, handshake>>
    /\ UNCHANGED tool_handlers

\* ACPConnection.register_tool_handler, called while the connection is
\* set up: before its first request is sent
register_tool_handler(name) ==
    /\ request_id = 0
    /\ name \notin tool_handlers
    /\ tool_handlers' = tool_handlers \cup {name}
    /\ acp_observed(NoCall, NoMessage)
    /\ UNCHANGED <<initialized, request_id, pending_requests, requests,
                   message_queue, read_task, leaked, process, lines,
                   handshake>>

\* ACPConnection._handle_request: what is written back for the request m;
\* raises tells whether the tool's handler raises
handle_request(m, raises) ==
    IF m.method = "tools/call"
    THEN IF m.name \in tool_handlers
         THEN IF raises
              THEN [kind |-> "error", id |-> m.id, code |-> INVALID_REQUEST]
              ELSE [kind |-> "result", id |-> m.id, code |-> 0]
         ELSE [kind |-> "error", id |-> m.id, code |-> METHOD_NOT_FOUND]
    ELSE IF m.method = "ping"
         THEN [kind |-> "result", id |-> m.id, code |-> 0]
         ELSE NoReply

\* an exception other than json.JSONDecodeError leaves the loop of the
\* reader that read the line: the outer handler queues {"error": ...} and
\* the task ends
reader_fails ==
    /\ \/ read_task = "running" /\ read_task' = "failed" /\ UNCHANGED leaked
       \/ leaked > 0 /\ leaked' = leaked - 1 /\ UNCHANGED read_task
    /\ message_queue' =
          Append(message_queue, [NoMessage EXCEPT !.kind = "reader_error"])

\* a reader that goes on to its next readline
reader_goes_on == UNCHANGED <<read_task, leaked>>

\* one turn of the loop of _read_messages on the line m
read_message(m) ==
    /\ a_reader_runs
    /\ process = "running"
    /\ lines < MaxLines
    /\ lines' = lines + 1
    /\ CASE m.kind = "request" ->
              /\ \E raises \in BOOLEAN :
                    acp_replied(NoCall, m, handle_request(m, raises))
              /\ reader_goes_on
              /\ UNCHANGED <<pending_requests, requests, message_queue>>
         [] m.kind = "json_number" ->
              /\ reader_fails
              /\ acp_observed(NoCall, m)
              /\ UNCHANGED <<pending_requests, requests>>
         [] m.kind = "json_array" ->
              /\ reader_goes_on
              /\ acp_observed(NoCall, m)
              /\ UNCHANGED <<pending_requests, requests, message_queue>>
         [] m.kind = "response" ->
              /\ reader_goes_on
              /\ acp_observed(NoCall, m)
              /\ pending_requests' = pending_requests \ {m.id}
              /\ requests' =
                    IF m.id \in pending_requests
                       /\ requests[m.id].state = "waiting"
                    THEN [requests EXCEPT ![m.id].state =
                             IF m.result THEN "got_result" ELSE "got_error"]
                    ELSE requests
              /\ UNCHANGED message_queue
         [] m.kind = "notification" ->
              /\ reader_goes_on
              /\ acp_observed(NoCall, m)
              /\ message_queue' = Append(message_queue, m)
              /\ UNCHANGED <<pending_requests, requests>>
         [] m.kind = "not_json" ->
              /\ reader_goes_on
              /\ acp_observed(NoCall, m)
              /\ message_queue' =
                    Append(message_queue, wrap_as_notification(m))
              /\ UNCHANGED <<pending_requests, requests>>
    /\ UNCHANGED <<initialized, request_id, process, handshake>>
    /\ UNCHANGED tool_handlers

\* _read_messages reads the end of the agent's output and leaves its loop
read_eof ==
    /\ a_reader_runs
    /\ process = "exited"
    /\ read_task' = IF read_task = "running" THEN "ended" ELSE read_task
    /\ leaked' = 0
    /\ acp_observed(NoCall, [NoMessage EXCEPT !.kind = "eof"])
    /\ UNCHANGED <<initialized, request_id, pending_requests, requests,
                   message_queue, process, lines, handshake>>
    /\ UNCHANGED tool_handlers

\* a timeout that leaves the future in _pending_requests
request_times_out_keeps_entry(id) ==
    /\ id \in DOMAIN requests
    /\ requests[id].state = "waiting"
    /\ requests' = [requests EXCEPT ![id].state = "returned_none"]
    /\ acp_observed(NoCall, NoMessage)
    /\ UNCHANGED <<initialized, request_id, pending_requests, message_queue,
                   read_task, leaked, process, lines, handshake>>
    /\ UNCHANGED tool_handlers

\* _send_request: asyncio.wait_for gives up, the entry is popped and the
\* call returns None (initialize then returns False, call_tool {})
request_times_out(id) ==
    /\ id \in DOMAIN requests
    /\ requests[id].state = "waiting"
    /\ pending_requests' = pending_requests \ {id}
    /\ requests' = [requests EXCEPT ![id].state = "returned_none"]
    /\ handshake' = IF requests[id].method = "initialize"
                       /\ handshake # "completed"
                    THEN "failed" ELSE handshake
    /\ acp_observed(NoCall, NoMessage)
    /\ UNCHANGED <<initialized, request_id, message_queue, read_task, leaked,
                   process, lines>>
    /\ UNCHANGED tool_handlers

\* _send_request resumes with the response, and its caller goes on:
\* initialize sets _initialized when the response has a result
request_returns(id) ==
    /\ id \in DOMAIN requests
    /\ requests[id].state \in {"got_result", "got_error"}
    /\ requests' = [requests EXCEPT ![id].state = "returned"]
    /\ IF requests[id].method = "initialize"
       THEN IF requests[id].state = "got_result"
            THEN initialized' = TRUE /\ handshake' = "completed"
            ELSE /\ handshake' = IF handshake # "completed" THEN "failed"
                                 ELSE handshake
                 /\ UNCHANGED initialized
       ELSE UNCHANGED <<initialized, handshake>>
    /\ acp_observed(NoCall, NoMessage)
    /\ UNCHANGED <<request_id, pending_requests, message_queue, read_task,
                   leaked, process, lines>>
    /\ UNCHANGED tool_handlers

\* the event collector of the prompt id takes a message from the queue
collect(id) ==
    /\ id \in PromptIds
    /\ requests[id].state = "streaming"
    /\ message_queue # <<>>
    /\ message_queue' = Tail(message_queue)
    /\ LET m == Head(message_queue) IN
       requests' =
          IF parse_message(m) = "None" THEN requests
          ELSE [requests EXCEPT
                   ![id].events = Append(@, m.about),
                   ![id].state = IF is_completion_message(m, id)
                                 THEN "ended" ELSE @]
    /\ acp_observed(NoCall, NoMessage)
    /\ UNCHANGED <<initialized, request_id, pending_requests, read_task,
                   leaked, process, lines, handshake>>
    /\ UNCHANGED tool_handlers

\* the agent process exits on its own
agent_exits ==
    /\ process = "running"
    /\ process' = "exited"
    /\ acp_observed(NoCall, NoMessage)
    /\ UNCHANGED <<initialized, request_id, pending_requests, requests,
                   message_queue, read_task, leaked, lines, handshake>>
    /\ UNCHANGED tool_handlers

\* ACPConnection.close; on a process that has exited process.terminate()
\* may raise ProcessLookupError (raises), which ends close at once
acp_close(raises) ==
    /\ raises => process = "exited"
    /\ read_task' = IF read_task = "running" THEN "cancelled" ELSE read_task
    /\ process' = "exited"
    /\ initialized' = IF raises THEN initialized ELSE FALSE
    /\ handshake' = "closed"
    /\ acp_observed([op |-> "close",
                     outcome |-> IF raises THEN "ProcessLookupError"
                                 ELSE "None",
                     wrote |-> FALSE], NoMessage)
    /\ UNCHANGED <<request_id, pending_requests, requests, message_queue,
                   leaked, lines>>
    /\ UNCHANGED tool_handlers

AcpNext ==
    \/ acp_initialize /\ UNCHANGED outsideAcp
    \/ call_tool /\ UNCHANGED outsideAcp
    \/ send_prompt /\ UNCHANGED outsideAcp
    \/ \E n \in HandledTools : register_tool_handler(n) /\ UNCHANGED outsideAcp
    \/ \E m \in Messages : read_message(m) /\ UNCHANGED outsideAcp
    \/ read_eof /\ UNCHANGED outsideAcp
    \/ \E id \in RequestIds : request_times_out(id) /\ UNCHANGED outsideAcp
    \/ \E id \in RequestIds : request_returns(id) /\ UNCHANGED outsideAcp
    \/ \E id \in RequestIds : collect(id) /\ UNCHANGED outsideAcp
    \/ agent_exits /\ UNCHANGED outsideAcp
    \/ \E raises \in BOOLEAN : acp_close(raises) /\ UNCHANGED outsideAcp

\* the ACP connection alone
AcpSpec ==
    /\ AllConstructed
    /\ [][AcpNext]_<<acpVars, outsideAcp>>

AcpTypeOK ==
    /\ initialized \in BOOLEAN
    /\ request_id \in 0..MaxRequests
    /\ DOMAIN requests = 1..request_id
    /\ pending_requests \subseteq DOMAIN requests
    /\ \A id \in DOMAIN requests :
          /\ requests[id].method \in
                {"initialize", "tools/call", "prompts/request"}
          /\ requests[id].state \in
                {"waiting", "raised", "got_result", "got_error", "returned",
                 "returned_none", "streaming", "ended"}
    /\ Len(message_queue) <= MaxLines
    /\ read_task \in {"none", "running", "ended", "cancelled", "failed"}
    /\ tool_handlers \subseteq HandledTools
    /\ last_reply.kind \in {"none", "result", "error"}
    /\ last_reply.code \in {0, METHOD_NOT_FOUND, INVALID_REQUEST}
    /\ leaked \in 0..MaxRequests
    /\ process \in {"running", "exited"}
    /\ lines \in 0..MaxLines
    /\ handshake \in {"none", "failed", "completed", "closed"}

----------------------------------------------------------------------------
(* Properties of the ACP connection *)

\* C16: when the reader has just taken a line that completes a streaming
\* prompt (the prompt's id with a result, or params.type = "completion"),
\* a message that ends the prompt's stream is in the queue its collector
\* reads, so that the stream ends.
C16_CompletionEndsStream ==
    \A p \in PromptIds :
        (/\ requests[p].state = "streaming"
         /\ last_read.kind \in {"response", "notification"}
         /\ is_completion_message(last_read, p))
        => \E i \in 1..Len(message_queue) :
              /\ parse_message(message_queue[i]) # "None"
              /\ is_completion_message(message_queue[i], p)

\* C17: while a prompt is streaming, no other prompt's iterator holds an
\* event the agent wrote for it.
C17_PromptsDoNotShareEvents ==
    \A p, q \in PromptIds :
        (p # q /\ requests[q].state = "streaming")
        => \A i \in 1..Len(requests[p].events) : requests[p].events[i] # q

\* C18: a send_prompt or call_tool call made while the handshake has not
\* completed (never started, failed or timed out, or close was called
\* since) fails with NotInitialized and writes nothing.
C18_NotInitializedUntilHandshake ==
    (last_call.op \in {"send_prompt", "call_tool"}
     /\ handshake # "completed")
    => (last_call.outcome = "NotInitialized" /\ ~last_call.wrote)

\* C19: when the reader has just read the end of the agent's output, no
\* request is pending any more.
C19_EofCompletesPending ==
    last_read.kind = "eof" =>
        /\ pending_requests = {}
        /\ \A id \in DOMAIN requests : requests[id].state # "waiting"

MalformedKinds == {"not_json", "json_number", "json_array"}

\* C21: reading a malformed line (not JSON, or JSON that is no object)
\* ends no reader: every reader task that ran before the line still runs
\* after it, so later lines are still routed.
C21_MalformedLineKeepsReader ==
    [][(lines' # lines /\ last_read'.kind \in MalformedKinds)
       => (read_task' = read_task /\ leaked' = leaked)]_acpVars

\* the methods _handle_request has a branch for
HandledMethods == {"tools/call", "ping"}

\* C22: when the reader has just taken a request (a method and an id) whose
\* method the connection does not handle, it has written back an error
\* response with the request's id and code -32601.
C22_UnknownMethodAnswered ==
    (last_read.kind = "request" /\ last_read.method \notin HandledMethods)
    => last_reply = [kind |-> "error", id |-> last_read.id,
                     code |-> METHOD_NOT_FOUND]

----------------------------------------------------------------------------
(* MemorySyncBus: its operations *)

\* the orders in which a loop over the set S may visit it
Orders(S) ==
    {f \in [1..Cardinality(S) -> S] :
        \A i, j \in 1..Cardinality(S) : f[i] = f[j] => i = j}

\* asyncio.iscoroutinefunction(callback)
iscoroutinefunction(c) == c = "task"

\* a publish whose loop ends at the first callback that raises
loop_ends_on_raise(order, i) ==
    \A j \in 1..(i - 1) : order[j] # "raising"

\* publish: whether its loop over the callbacks reaches position i of the
\* order; the try/except around each call lets it go on after a callback
\* that raised
loop_reaches(order, i) == TRUE

\* publish: its loop over the callbacks in the given order, from position
\* from, for the event e.  A coroutine function becomes a task, any other
\* callback is called at once, and the loop waits inside a call that takes
\* long
notify(order, from, e) ==
    LET slow_at == {i \in from..Len(order) :
                      order[i] = "slow" /\ loop_reaches(order, i)}
        last == IF slow_at = {} THEN Len(order)
                ELSE CHOOSE i \in slow_at : \A j \in slow_at : i <= j
        called == {order[i] : i \in {j \in from..last :
                                        loop_reaches(order, j)}}
    IN  /\ received' =
              [c \in Callbacks |->
                  IF c \in called /\ ~iscoroutinefunction(c)
                  THEN Append(received[c], e) ELSE received[c]]
        /\ created_tasks' = IF \E c \in called : iscoroutinefunction(c)
                    THEN Append(created_tasks, e) ELSE created_tasks
        /\ publishing' = IF slow_at = {} THEN NoPublish
                         ELSE [event |-> e, order |-> order, at |-> last]

\* MemorySyncBus.subscribe
subscribe(session_id, callback) ==
    /\ publishing = NoPublish
    /\ subscribers' =
          IF session_id \in DOMAIN subscribers
          THEN [subscribers EXCEPT ![session_id] = @ \cup {callback}]
          ELSE (session_id :> {callback}) @@ subscribers
    /\ UNCHANGED <<published, publishing, created_tasks, received>>

\* MemorySyncBus.unsubscribe
unsubscribe(session_id, callback) ==
    /\ publishing = NoPublish
    /\ subscribers' =
          IF session_id \notin DOMAIN subscribers THEN subscribers
          ELSE IF subscribers[session_id] \ {callback} = {}
               THEN [s \in DOMAIN subscribers \ {session_id} |->
                        subscribers[s]]
               ELSE [subscribers EXCEPT ![session_id] = @ \ {callback}]
    /\ UNCHANGED <<published, publishing, created_tasks, received>>

\* MemorySyncBus.publish of a new event on the session, up to its return
\* or to the inside of a callback that takes long
publish(session_id) ==
    /\ publishing = NoPublish
    /\ Len(published) < MaxEvents
    /\ LET e == Len(published) + 1
           to == IF session_id \in DOMAIN subscribers
                 THEN subscribers[session_id] ELSE {}
       IN  /\ published' =
                 Append(published, [session_id |-> session_id, to |-> to])
           /\ \E order \in Orders(to) : notify(order, 1, e)
    /\ UNCHANGED subscribers

\* the callback publish waits in returns, and the loop of publish goes on
callback_returns ==
    /\ publishing # NoPublish
    /\ notify(publishing.order, publishing.at + 1, publishing.event)
    /\ UNCHANGED <<subscribers, published>>

\* the event loop starts the oldest task publish created
run_task ==
    /\ publishing = NoPublish
    /\ created_tasks # <<>>
    /\ received' = [received EXCEPT !["task"] = Append(@, Head(created_tasks))]
    /\ created_tasks' = Tail(created_tasks)
    /\ UNCHANGED <<subscribers, published, publishing>>

SyncNext ==
    \/ \E s \in Topics, c \in Callbacks : subscribe(s, c) /\ UNCHANGED outsideSync
    \/ \E s \in Topics, c \in Callbacks : unsubscribe(s, c) /\ UNCHANGED outsideSync
    \/ \E s \in Topics : publish(s) /\ UNCHANGED outsideSync
    \/ callback_returns /\ UNCHANGED outsideSync
    \/ run_task /\ UNCHANGED outsideSync

\* the sync bus alone
SyncSpec ==
    /\ AllConstructed
    /\ [][SyncNext]_<<syncVars, outsideSync>>

SyncTypeOK ==
    /\ DOMAIN subscribers \subseteq Topics
    /\ \A s \in DOMAIN subscribers :
          subscribers[s] # {} /\ subscribers[s] \subseteq Callbacks
    /\ Len(published) <= MaxEvents
    /\ publishing.event \in 0..Len(published)
    /\ \A i \in 1..Len(created_tasks) : created_tasks[i] \in 1..Len(published)

----------------------------------------------------------------------------
(* Properties of the sync bus *)

\* the events callback c is due: those published on a session it was
\* subscribed to at publish time, in publish order
due_events(c) ==
    LET F[k \in 0..Len(published)] ==
            IF k = 0 THEN <<>>
            ELSE IF c \in published[k].to THEN Append(F[k - 1], k)
                 ELSE F[k - 1]
    IN  F[Len(published)]

\* the events callback c was called with, followed by those of its tasks
\* that have not started
handed(c) ==
    IF iscoroutinefunction(c) THEN received[c] \o created_tasks ELSE received[c]

\* C23: once publish has returned, every callback has been handed exactly
\* the events published on the sessions it was subscribed to at publish
\* time, once each and in publish order, whatever other callbacks raised.
C23_DeliveredOnceInOrder ==
    publishing = NoPublish => \A c \in Callbacks : handed(c) = due_events(c)

\* two events went to the callbacks "slow" and "task" while "raising" was
\* subscribed with them, and a third went to another session
C23_Witness ==
    /\ publishing = NoPublish
    /\ Len(received["slow"]) >= 2
    /\ Len(received["task"]) >= 2
    /\ Len(received["raising"]) >= 1
    /\ \E k \in 1..Len(published) : published[k].to = {}

\* C24: publish never waits for a subscriber's callback to return.
C24_PublishNeverWaitsOnCallback == publishing = NoPublish

----------------------------------------------------------------------------
(* SessionManager: its operations *)

\* a dict without the key k
without(d, k) == [x \in DOMAIN d \ {k} |-> d[x]]

\* what get returns for an id that is not registered (None)
NoSession == [id |-> <<>>, status |-> "None", agents |-> <<>>, tasks |-> <<>>]

\* SessionManager.get
get(session_id) ==
    IF session_id \in DOMAIN sessions THEN sessions[session_id]
    ELSE NoSession

\* SessionManager.list_all
list_all == {sessions[id] : id \in DOMAIN sessions}

\* Session(...) as create builds it
new_session(id) ==
    [id |-> id, status |-> "created", agents |-> <<>>, tasks |-> <<>>]

\* SessionManager.create; the session is registered before its context
\* manager is initialized, and initializing it opens the memory store,
\* which may fail (store_fails): create then raises
create(store_fails) ==
    /\ created < MaxSessions
    /\ LET id == new_session_id(created + 1) IN
       /\ created' = created + 1
       /\ sessions' = (id :> new_session(id)) @@ sessions
       /\ IF store_fails
          THEN /\ last_session_call' =
                     [op |-> "create", id |-> <<>>, arg |-> "none",
                      ret |-> "raised"]
               /\ UNCHANGED <<context_managers, returned>>
          ELSE /\ context_managers' = context_managers \cup {id}
               /\ returned' = returned \cup {id}
               /\ last_session_call' =
                     [op |-> "create", id |-> id, arg |-> "none",
                      ret |-> "session"]
    /\ UNCHANGED <<cli_launchers, processes, deleted>>

\* a status change that builds the session anew, without agents and tasks
set_status_of_new_session(session, status) ==
    [new_session(session.id) EXCEPT !.status = status]

\* SessionManager.update_status: session.status = status
set_status(session, status) == [session EXCEPT !.status = status]

\* SessionManager.update_status
update_status(session_id, status) ==
    /\ IF get(session_id) = NoSession
       THEN /\ last_session_call' =
                  [op |-> "update_status", id |-> session_id,
                   arg |-> status, ret |-> "False"]
            /\ UNCHANGED sessions
       ELSE /\ sessions' =
                  [sessions EXCEPT ![session_id] = set_status(@, status)]
            /\ last_session_call' =
                  [op |-> "update_status", id |-> session_id,
                   arg |-> status, ret |-> "True"]
    /\ UNCHANGED <<context_managers, cli_launchers, processes, created,
                   returned, deleted>>

\* SessionManager.add_agent
add_agent(session_id) ==
    /\ IF get(session_id) = NoSession
       THEN /\ last_session_call' = NoSessionCall
            /\ UNCHANGED sessions
       ELSE /\ Len(sessions[session_id].agents) < MaxAdded
            /\ sessions' =
                  [sessions EXCEPT ![session_id].agents = Append(@, "agent")]
            /\ last_session_call' = NoSessionCall
    /\ UNCHANGED <<context_managers, cli_launchers, processes, created,
                   returned, deleted>>

\* SessionManager.add_task
add_task(session_id) ==
    /\ IF get(session_id) = NoSession
       THEN /\ last_session_call' = NoSessionCall
            /\ UNCHANGED sessions
       ELSE /\ Len(sessions[session_id].tasks) < MaxAdded
            /\ sessions' =
                  [sessions EXCEPT ![session_id].tasks = Append(@, "task")]
            /\ last_session_call' = NoSessionCall
    /\ UNCHANGED <<context_managers, cli_launchers, processes, created,
                   returned, deleted>>

\* a launcher that keeps every wrapper it started
launch_keeps_all(wrappers, name, pid) ==
    IF name \in DOMAIN wrappers
    THEN [wrappers EXCEPT ![name] = @ \cup {pid}]
    ELSE (name :> {pid}) @@ wrappers

\* CLILauncher.launch after a successful start: self._wrappers[name] =
\* wrapper; a dict entry holds one wrapper
launch(wrappers, name, pid) ==
    (name :> {pid}) @@ without(wrappers, name)

\* SessionManager.launch_agent; starts tells whether CLIWrapper.start
\* succeeds
launch_agent(session_id, name, starts) ==
    /\ IF get(session_id) = NoSession
       THEN /\ last_session_call' = NoSessionCall
            /\ UNCHANGED <<cli_launchers, processes>>
       ELSE LET launchers ==
                    IF session_id \in DOMAIN cli_launchers THEN cli_launchers
                    ELSE (session_id :> <<>>) @@ cli_launchers
                pid == Len(processes) + 1
            IN  IF starts
                THEN /\ pid <= MaxLaunches
                     /\ processes' =
                           Append(processes,
                                  [session_id |-> session_id, name |-> name,
                                   running |-> TRUE])
                     /\ cli_launchers' =
                           [launchers EXCEPT ![session_id] =
                               launch(@, name, pid)]
                     /\ last_session_call' = NoSessionCall
                ELSE /\ cli_launchers' = launchers
                     /\ last_session_call' = NoSessionCall
                     /\ UNCHANGED processes
    /\ UNCHANGED <<sessions, context_managers, created, returned, deleted>>

\* CLILauncher.stop_all: the processes after every wrapper in _wrappers
\* was stopped
stop_all(wrappers) ==
    LET held == UNION {wrappers[n] : n \in DOMAIN wrappers} IN
    [p \in DOMAIN processes |->
        IF p \in held THEN [processes[p] EXCEPT !.running = FALSE]
        ELSE processes[p]]

\* SessionManager.delete
delete(session_id) ==
    /\ IF session_id \notin DOMAIN sessions
       THEN /\ last_session_call' =
                  [op |-> "delete", id |-> session_id, arg |-> "none",
                   ret |-> "False"]
            /\ UNCHANGED <<sessions, context_managers, cli_launchers,
                           processes, deleted>>
       ELSE /\ IF session_id \in DOMAIN cli_launchers
               THEN /\ processes' = stop_all(cli_launchers[session_id])
                    /\ cli_launchers' = without(cli_launchers, session_id)
               ELSE UNCHANGED <<cli_launchers, processes>>
            /\ context_managers' = context_managers \ {session_id}
            /\ sessions' = without(sessions, session_id)
            /\ deleted' = deleted \cup {session_id}
            /\ last_session_call' =
                  [op |-> "delete", id |-> session_id, arg |-> "none",
                   ret |-> "True"]
    /\ UNCHANGED <<created, returned>>

SessionNext ==
    \/ \E f \in BOOLEAN : create(f) /\ UNCHANGED outsideSession
    \/ \E id \in SessionIds, st \in NewStatus :
          update_status(id, st) /\ UNCHANGED outsideSession
    \/ \E id \in SessionIds : add_agent(id) /\ UNCHANGED outsideSession
    \/ \E id \in SessionIds : add_task(id) /\ UNCHANGED outsideSession
    \/ \E id \in SessionIds, n \in AgentNames, ok \in BOOLEAN :
          launch_agent(id, n, ok) /\ UNCHANGED outsideSession
    \/ \E id \in SessionIds : delete(id) /\ UNCHANGED outsideSession

\* the session manager alone
SessionSpec ==
    /\ AllConstructed
    /\ [][SessionNext]_<<sessVars, outsideSession>>

----------------------------------------------------------------------------
(* Properties of the session manager *)

\* C25: every agent process launched for a session that delete has returned
\* True for is stopped.
C25_DeleteStopsEveryAgent ==
    \A p \in DOMAIN processes :
        processes[p].session_id \in deleted => ~processes[p].running

\* C26: get finds exactly the sessions create returned and delete has not
\* removed, and list_all holds exactly those; a session just created has
\* status created and an id of 8 characters; delete returns True exactly
\* for an id in the registry, and changes nothing when it returns False.
C26_RegistryMatchesCreateAndDelete ==
    [][/\ \A id \in SessionIds :
             (get(id)' # NoSession) <=> (id \in returned' \ deleted')
       /\ list_all' = {get(id)' : id \in returned' \ deleted'}
       /\ (last_session_call'.op = "create"
           /\ last_session_call'.ret = "session")
          => (/\ Len(last_session_call'.id) = 8
              /\ sessions'[last_session_call'.id].status = "created")
       /\ last_session_call'.op = "delete"
          => (/\ last_session_call'.ret = "True"
                    <=> last_session_call'.id \in DOMAIN sessions
              /\ last_session_call'.ret = "False"
                    => sessions' = sessions)]_sessVars

\* C27: update_status on an existing session returns True and sets exactly
\* that session's status, leaving its agents and tasks and every other
\* session as they were; on an unknown id it returns False and changes no
\* session.
C27_UpdateStatusFrame ==
    [][last_session_call'.op = "update_status" =>
          LET id == last_session_call'.id
              st == last_session_call'.arg
          IN  IF id \in DOMAIN sessions
              THEN /\ last_session_call'.ret = "True"
                   /\ DOMAIN sessions' = DOMAIN sessions
                   /\ sessions'[id] = [sessions[id] EXCEPT !.status = st]
                   /\ \A o \in DOMAIN sessions \ {id} :
                         sessions'[o] = sessions[o]
              ELSE /\ last_session_call'.ret = "False"
                   /\ sessions' = sessions]_sessVars

\* update_status has just set a session that has an agent and a task to
\* paused, beside another session
C27_Witness ==
    /\ last_session_call.op = "update_status"
    /\ last_session_call.ret = "True"
    /\ Cardinality(DOMAIN sessions) = 2
    /\ get(last_session_call.id).status = "paused"
    /\ get(last_session_call.id).agents # <<>>
    /\ get(last_session_call.id).tasks # <<>>

----------------------------------------------------------------------------
(* DependencyGraph: its operations *)

\* the dependency sets a task handed to add_task may have
GraphDeps == {D \in SUBSET Pool : Cardinality(D) <= MaxDeps}

\* the elements of the set S in the order ord, one of the orders in which a
\* loop over the set may visit it
in_order(S, ord) == SelectSeq(ord, LAMBDA x : x \in S)

\* dict.get(key, set())
get_or_empty(d, k) == IF k \in DOMAIN d THEN d[k] ELSE {}

\* DependencyGraph.add_task
add_task_to_graph(id, deps) ==
    /\ g_tasks' = IF \E i \in 1..Len(g_tasks) : g_tasks[i] = id
                  THEN g_tasks ELSE Append(g_tasks, id)
    /\ g_dependencies' =
          [t \in DOMAIN g_dependencies \cup {id} |->
              IF t = id THEN deps ELSE g_dependencies[t]]
    /\ g_dependents' =
          [d \in DOMAIN g_dependents \cup deps |->
              IF d \in deps THEN get_or_empty(g_dependents, d) \cup {id}
              ELSE g_dependents[d]]
    /\ UNCHANGED g_removed

\* DependencyGraph.remove_task
remove_task(id) ==
    /\ g_tasks' = SelectSeq(g_tasks, LAMBDA t : t # id)
    /\ g_dependencies' =
          [t \in DOMAIN g_dependencies \ {id} |-> g_dependencies[t] \ {id}]
    /\ g_dependents' =
          [d \in DOMAIN g_dependents \ {id} |-> g_dependents[d]]
    /\ g_removed' = TRUE

\* list.index
index_of(seq, x) == CHOOSE i \in 1..Len(seq) : seq[i] = x

RECURSIVE dfs(_, _, _, _)
RECURSIVE dfs_deps(_, _, _, _, _)

\* detect_cycles: the loop of dfs(t) over the dependencies ds still to
\* visit; gives the cycle found (<<>>: none) and the colours
dfs_deps(t, ds, color, path, ord) ==
    IF ds = <<>>
    THEN [cycle |-> <<>>, color |-> [color EXCEPT ![t] = "BLACK"]]
    ELSE LET dep_id == Head(ds) IN
         IF dep_id \notin DOMAIN color
         THEN dfs_deps(t, Tail(ds), color, path, ord)
         ELSE IF color[dep_id] = "GRAY"
         THEN [cycle |-> SubSeq(path, index_of(path, dep_id), Len(path))
                            \o <<dep_id>>,
               color |-> color]
         ELSE IF color[dep_id] = "WHITE"
         THEN LET r == dfs(dep_id, color, path, ord) IN
              IF r.cycle # <<>> THEN r
              ELSE dfs_deps(t, Tail(ds), r.color, path, ord)
         ELSE dfs_deps(t, Tail(ds), color, path, ord)

\* detect_cycles: its inner function dfs
dfs(t, color, path, ord) ==
    dfs_deps(t, in_order(get_or_empty(g_dependencies, t), ord),
             [color EXCEPT ![t] = "GRAY"], Append(path, t), ord)

RECURSIVE dfs_from(_, _, _)

\* detect_cycles: its loop over _tasks, from position i
dfs_from(i, color, ord) ==
    IF i > Len(g_tasks) THEN <<>>
    ELSE IF color[g_tasks[i]] = "WHITE"
    THEN LET r == dfs(g_tasks[i], color, <<>>, ord) IN
         IF r.cycle # <<>> THEN r.cycle ELSE dfs_from(i + 1, r.color, ord)
    ELSE dfs_from(i + 1, color, ord)

\* DependencyGraph.detect_cycles: the cycle, or <<>> for None
detect_cycles(ord) ==
    dfs_from(1, [t \in DOMAIN g_dependencies |-> "WHITE"], ord)

RECURSIVE reduce_in_degree(_, _, _)

\* topological_sort: the loop over the dependents ds of the task just
\* taken from the queue; in_degree[dependent] raises KeyError for a
\* dependent that is no task of the graph
reduce_in_degree(ds, queue, in_degree) ==
    IF ds = <<>>
    THEN [queue |-> queue, in_degree |-> in_degree, raised |-> FALSE]
    ELSE LET dependent == Head(ds) IN
         IF dependent \notin DOMAIN in_degree
         THEN [queue |-> queue, in_degree |-> in_degree, raised |-> TRUE]
         ELSE LET reduced == [in_degree EXCEPT ![dependent] = @ - 1] IN
              reduce_in_degree(Tail(ds),
                               IF reduced[dependent] = 0
                               THEN Append(queue, dependent) ELSE queue,
                               reduced)

RECURSIVE kahn(_, _, _, _)

\* topological_sort: its while loop
kahn(queue, done, in_degree, ord) ==
    IF queue = <<>> THEN [result |-> done, raised |-> FALSE]
    ELSE LET task_id == Head(queue)
             r == reduce_in_degree(
                      in_order(get_or_empty(g_dependents, task_id), ord),
                      Tail(queue), in_degree)
         IN  IF r.raised
             THEN [result |-> Append(done, task_id), raised |-> TRUE]
             ELSE kahn(r.queue, Append(done, task_id), r.in_degree, ord)

\* DependencyGraph.topological_sort: the list it returns, or the exception
\* it raises
topological_sort(ord) ==
    LET in_degree == [t \in DOMAIN g_dependencies |->
                         Cardinality(g_dependencies[t])]
        r == kahn(SelectSeq(g_tasks, LAMBDA t : in_degree[t] = 0), <<>>,
                  in_degree, ord)
    IN  IF r.raised THEN [raises |-> "KeyError", result |-> <<>>]
        ELSE IF Len(r.result) # Len(g_tasks)
        THEN [raises |-> "ValueError", result |-> <<>>]
        ELSE [raises |-> "none", result |-> r.result]

\* DependencyGraph.get_dependencies
get_dependencies(t) == get_or_empty(g_dependencies, t)

\* DependencyGraph.get_dependents
get_dependents(t) == get_or_empty(g_dependents, t)

\* task_id in self._tasks
in_graph(t) == \E i \in 1..Len(g_tasks) : g_tasks[i] = t

GraphNext ==
    \/ \E id \in Pool, deps \in GraphDeps :
          add_task_to_graph(id, deps) /\ UNCHANGED outsideGraph
    \/ \E id \in Pool : remove_task(id) /\ UNCHANGED outsideGraph

\* the dependency graph alone
GraphSpec ==
    /\ AllConstructed
    /\ [][GraphNext]_<<graphVars, outsideGraph>>

----------------------------------------------------------------------------
(* TaskScheduler (src/src/memnexus/orchestrator/scheduler.py): the          *)
(* scheduler keeps its tasks under the same ids as its graph, so the       *)
(* graph's states are the scheduler's                                      *)

\* most agents of one role in an available_agents map
MaxAgents == 2

\* the roles of the tasks given to the scheduler
SchedulerRoles == {"backend", "tester"}

\* task.role of the task stored under an id: the last id of the pool is a
\* tester task, the others are backend tasks
role_of(t) == IF t = Ids[MaxTasks] THEN "tester" ELSE "backend"

\* the available_agents maps a caller passes: counts for some of the roles
\* (the map without roles is falsy, as None is)
AvailableAgents ==
    UNION {[R -> 0..MaxAgents] : R \in SUBSET SchedulerRoles}

\* the set of the elements of a list
Range(seq) == {seq[i] : i \in 1..Len(seq)}

\* self.graph._calculate_phases(...): DependencyGraph has no such attribute
graph_calculate_phases == [raises |-> "AttributeError", phases |-> <<>>]

\* sorted(remaining, key=number of dependencies): a stable sort of the set
\* as the loop visits it
RECURSIVE sorted_by_dependencies(_, _)
sorted_by_dependencies(seq, k) ==
    IF k > Cardinality(Pool) THEN <<>>
    ELSE SelectSeq(seq, LAMBDA t : Cardinality(get_dependencies(t)) = k)
            \o sorted_by_dependencies(seq, k + 1)

\* available_agents.get(role, 1)
available_for(available, role) ==
    IF role \in DOMAIN available THEN available[role] ELSE 1

\* role_usage.get(role, 0) for the phase built so far
role_usage(phase, role) ==
    Cardinality({i \in 1..Len(phase) : role_of(phase[i]) = role})

\* _optimize_phases: the for loop over sorted_tasks
RECURSIVE fill_phase(_, _, _, _)
fill_phase(ts, phase, completed, available) ==
    IF ts = <<>> THEN phase
    ELSE LET task_id == Head(ts)
             deps_satisfied == get_dependencies(task_id) \subseteq completed
             role == role_of(task_id)
         IN  IF deps_satisfied
                /\ role_usage(phase, role) < available_for(available, role)
             THEN fill_phase(Tail(ts), Append(phase, task_id), completed,
                             available)
             ELSE fill_phase(Tail(ts), phase, completed, available)

\* _optimize_phases: the while loop
RECURSIVE optimize_loop(_, _, _, _, _)
optimize_loop(remaining, completed, acc, available, ord) ==
    IF remaining = {} THEN acc
    ELSE LET sorted_tasks ==
                 sorted_by_dependencies(in_order(remaining, ord), 0)
             phase == fill_phase(sorted_tasks, <<>>, completed, available)
         IN  IF phase = <<>> THEN acc
             ELSE optimize_loop(remaining \ Range(phase),
                                completed \cup Range(phase),
                                Append(acc, phase), available, ord)

\* TaskScheduler._optimize_phases
optimize_phases(available, ord) ==
    IF DOMAIN available = {} THEN graph_calculate_phases
    ELSE [raises |-> "none",
          phases |-> optimize_loop(Range(g_tasks), {}, <<>>, available, ord)]

\* TaskScheduler._calculate_phases
scheduler_calculate_phases(strat, available, ord) ==
    CASE strat = "sequential" ->
           LET r == topological_sort(ord) IN
           [raises |-> r.raises,
            phases |-> [i \in 1..Len(r.result) |-> <<r.result[i]>>]]
      [] strat = "parallel" -> graph_calculate_phases
      [] strat = "review" -> graph_calculate_phases
      [] strat = "auto" -> optimize_phases(available, ord)

\* TaskScheduler.create_schedule: the phases of the schedule it returns, or
\* the exception it raises
create_schedule(strat, available, ord) ==
    IF detect_cycles(ord) # <<>>
    THEN [raises |-> "ValueError", phases |-> <<>>]
    ELSE scheduler_calculate_phases(strat, available, ord)

----------------------------------------------------------------------------
(* Properties of the dependency graph *)

\* C28: on a graph built by add_task calls alone, topological_sort raises
\* exactly when detect_cycles returns a cycle, and a list it returns holds
\* every task once, each after all the dependencies it names.
C28_SortRaisesIffCycle ==
    ~g_removed =>
        \A ord \in Orders(Pool) :
            LET sorted == topological_sort(ord) IN
            /\ sorted.raises # "none" <=> detect_cycles(ord) # <<>>
            /\ sorted.raises = "none" =>
                  /\ Len(sorted.result) = Len(g_tasks)
                  /\ \A t \in DOMAIN g_dependencies :
                        \E i \in 1..Len(sorted.result) :
                            /\ sorted.result[i] = t
                            /\ \A d \in g_dependencies[t] :
                                  \E j \in 1..(i - 1) : sorted.result[j] = d

----------------------------------------------------------------------------
(* Properties of cancellation *)

\* C29: cancelling a plan while it executes cancels every task that is
\* running and puts every task waiting for its dependencies into state
\* cancelled, and no task of the plan starts running after the cancel.
C29_CancelStopsThePlan ==
    [][/\ (cancel_called' /\ ~cancel_called)
            => \A t \in TaskSet :
                  /\ state[t] = "running" => state'[t] # "running"
                  /\ state[t] = "waiting_deps" => state'[t] = "cancelled"
       /\ (cancel_called /\ cancel_called')
            => \A t \in TaskSet :
                  state'[t] = "running" => state[t] = "running"
      ]_<<vars, cancelVars>>

----------------------------------------------------------------------------
(* CLIWrapper operations *)

AgentStatus == {"idle", "starting", "running", "paused", "stopped", "error"}

ReaderStates == {"none", "reading", "eof", "done", "cancelled"}

\* a reader task that is no longer running
finished(task) == task \in {"done", "cancelled"}

\* Task.cancel() followed by awaiting the task: _read_stdout / _read_stderr
\* catch CancelledError and return
cancel_and_await(task) ==
    IF task \in {"reading", "eof"} THEN "cancelled" ELSE task

\* Popen.send_signal polls first and sends nothing once the return code is
\* known
delivered(sigs, sig) ==
    IF w_process = "running" THEN Append(sigs, sig) ELSE sigs

\* CLIWrapper.start: the subprocess is created and both readers are started,
\* or creating the subprocess raises
wrapper_start(ok) ==
    /\ w_process = "none"
    /\ w_status # "running"
    /\ stop_pc = "idle"
    /\ IF ok
       THEN /\ w_process' = "running"
            /\ w_status' = "running"
            /\ output_task' = "reading"
            /\ stderr_task' = "reading"
            /\ pipes_open' = TRUE
       ELSE /\ w_status' = "error"
            /\ UNCHANGED <<w_process, output_task, stderr_task, pipes_open>>
    /\ UNCHANGED <<stop_pc, signals, stop_ret, stops>>

\* the child exits and the child watcher records its return code
process_exits ==
    /\ w_process = "running"
    /\ w_process' = "exited"
    /\ UNCHANGED <<w_status, output_task, stderr_task, pipes_open, stop_pc,
                   signals, stop_ret, stops>>

\* the last holder of the child's pipes closes them: end of file is fed to
\* both stream readers, whose tasks are queued to wake up
pipes_close ==
    /\ pipes_open
    /\ pipes_open' = FALSE
    /\ output_task' = IF output_task = "reading" THEN "eof" ELSE output_task
    /\ stderr_task' = IF stderr_task = "reading" THEN "eof" ELSE stderr_task
    /\ UNCHANGED <<w_process, w_status, stop_pc, signals, stop_ret, stops>>

\* the subprocess transport finishes (process exited, every pipe
\* disconnected): waiters of process.wait() wake up and _proc becomes None
transport_closes ==
    /\ w_process = "exited"
    /\ ~pipes_open
    /\ w_process' = "closed"
    /\ UNCHANGED <<w_status, output_task, stderr_task, pipes_open, stop_pc,
                   signals, stop_ret, stops>>

\* CLIWrapper._read_stdout: readline returns b"" and the loop breaks
read_stdout_ends ==
    /\ output_task = "eof"
    /\ output_task' = "done"
    /\ UNCHANGED <<w_process, w_status, stderr_task, pipes_open, stop_pc,
                   signals, stop_ret, stops>>

\* CLIWrapper._read_stderr: readline returns b"" and the loop breaks
read_stderr_ends ==
    /\ stderr_task = "eof"
    /\ stderr_task' = "done"
    /\ UNCHANGED <<w_process, w_status, output_task, pipes_open, stop_pc,
                   signals, stop_ret, stops>>

\* CLIWrapper.stop up to its first await: no process, or terminate() (which
\* raises ProcessLookupError on a finished transport), then
\* wait_for(process.wait(), timeout=5.0), which returns at once when the
\* return code is already known
stop_begin ==
    /\ stop_pc = "idle"
    /\ stops < MaxStops
    /\ stops' = stops + 1
    /\ IF w_process = "none"
       THEN /\ stop_ret' = "True"
            /\ UNCHANGED <<w_status, stop_pc, signals>>
       ELSE /\ w_status' = "stopped"
            /\ IF w_process = "closed"
               THEN /\ stop_ret' = "False"
                    /\ UNCHANGED <<stop_pc, signals>>
               ELSE /\ signals' = delivered(signals, "SIGTERM")
                    /\ stop_pc' =
                         IF w_process = "exited" THEN "cancel_output"
                         ELSE "grace"
                    /\ stop_ret' = "none"
    /\ UNCHANGED <<w_process, output_task, stderr_task, pipes_open>>

\* process.wait() returns within the 5 seconds
grace_wait_returns ==
    /\ stop_pc = "grace"
    /\ w_process = "closed"
    /\ stop_pc' = "cancel_output"
    /\ UNCHANGED <<w_process, w_status, output_task, stderr_task, pipes_open,
                   signals, stop_ret, stops>>

\* asyncio.TimeoutError after 5 seconds: process.kill(), then
\* await process.wait()
grace_times_out ==
    /\ stop_pc = "grace"
    /\ w_process # "closed"
    /\ signals' = delivered(signals, "SIGKILL")
    /\ stop_pc' = IF w_process = "exited" THEN "cancel_output" ELSE "killed"
    /\ UNCHANGED <<w_process, w_status, output_task, stderr_task, pipes_open,
                   stop_ret, stops>>

\* process.wait() returns after the kill
kill_wait_returns ==
    /\ stop_pc = "killed"
    /\ w_process = "closed"
    /\ stop_pc' = "cancel_output"
    /\ UNCHANGED <<w_process, w_status, output_task, stderr_task, pipes_open,
                   signals, stop_ret, stops>>

\* self._output_task.cancel() and await
cancel_output ==
    /\ stop_pc = "cancel_output"
    /\ output_task' = cancel_and_await(output_task)
    /\ stop_pc' = "cancel_stderr"
    /\ UNCHANGED <<w_process, w_status, stderr_task, pipes_open, signals,
                   stop_ret, stops>>

\* self._stderr_task.cancel() and await, then return True
cancel_stderr ==
    /\ stop_pc = "cancel_stderr"
    /\ stderr_task' = cancel_and_await(stderr_task)
    /\ stop_pc' = "idle"
    /\ stop_ret' = "True"
    /\ UNCHANGED <<w_process, w_status, output_task, pipes_open, signals,
                   stops>>

WrapperNext ==
    \/ \E ok \in BOOLEAN : wrapper_start(ok) /\ UNCHANGED outsideWrapper
    \/ process_exits /\ UNCHANGED outsideWrapper
    \/ pipes_close /\ UNCHANGED outsideWrapper
    \/ transport_closes /\ UNCHANGED outsideWrapper
    \/ read_stdout_ends /\ UNCHANGED outsideWrapper
    \/ read_stderr_ends /\ UNCHANGED outsideWrapper
    \/ stop_begin /\ UNCHANGED outsideWrapper
    \/ grace_wait_returns /\ UNCHANGED outsideWrapper
    \/ grace_times_out /\ UNCHANGED outsideWrapper
    \/ kill_wait_returns /\ UNCHANGED outsideWrapper
    \/ cancel_output /\ UNCHANGED outsideWrapper
    \/ cancel_stderr /\ UNCHANGED outsideWrapper

\* one CLI wrapper alone, the other components as constructed
WrapperSpec == AllConstructed /\ [][WrapperNext]_<<wrapperVars, outsideWrapper>>

WrapperTypeOK ==
    /\ w_process \in {"none", "running", "exited", "closed"}
    /\ w_status \in AgentStatus
    /\ output_task \in ReaderStates
    /\ stderr_task \in ReaderStates
    /\ pipes_open \in BOOLEAN
    /\ stop_pc \in {"idle", "grace", "killed", "cancel_output", "cancel_stderr"}
    /\ signals \in {<<>>, <<"SIGTERM">>, <<"SIGTERM", "SIGKILL">>}
    /\ stop_ret \in {"none", "True", "False"}
    /\ stops \in 0..MaxStops

----------------------------------------------------------------------------
(* Properties of CLIWrapper.stop *)

\* the step in which a stop() call returns
stop_reports == stop_pc' = "idle" /\ (stops' # stops \/ stop_pc # "idle")

\* C30: stop sends the graceful termination first; it sends the force-kill
\* only when the process has not exited within the grace period; and it
\* reports its result only after the process has been reaped and both
\* stream-reader tasks have been cancelled or have finished.
C30_StopOrder ==
    [][/\ (signals' # signals /\ signals'[Len(signals')] = "SIGTERM")
            => signals = <<>>
       /\ (signals' # signals /\ signals'[Len(signals')] = "SIGKILL")
            => /\ signals = <<"SIGTERM">>
               /\ stop_pc = "grace"
               /\ w_process = "running"
       /\ (stop_reports /\ w_process # "none")
            => /\ w_process' \in {"exited", "closed"}
               /\ finished(output_task')
               /\ finished(stderr_task')
      ]_wrapperVars

----------------------------------------------------------------------------
(* Properties of retries and of dependencies *)

\* C31: each failed execution of a task increases its retry_count by exactly
\* one and a successful execution leaves it alone; the task is marked failed
\* exactly on the failure that brings retry_count to max_retries and retrying
\* on every earlier failure; retry_count never exceeds max_retries.
C31_RetryCountBounded ==
    [][\A t \in TaskSet :
          /\ (state[t] = "running" /\ state'[t] = "completed")
                => retry_count'[t] = retry_count[t]
          /\ (state[t] = "running" /\ state'[t] \in {"retrying", "failed"})
                => retry_count'[t] = retry_count[t] + 1
          /\ retry_count'[t] # retry_count[t]
                => /\ state[t] = "running"
                   /\ retry_count'[t] = retry_count[t] + 1
                   /\ state'[t] = IF retry_count'[t] = max_retries
                                  THEN "failed" ELSE "retrying"
          /\ retry_count'[t] <= max_retries
      ]_vars

\* C32: under every strategy a task enters state running only when each of
\* its dependencies is a task of the plan in state completed at that moment,
\* whatever the order of the task list.
C32_RunsOnlyAfterDependencies ==
    [][\A t \in TaskSet :
          (state'[t] = "running" /\ state[t] # "running")
             => \A d \in DepSet(t) : get_task(d) /\ state[d] = "completed"
      ]_vars

\* under the sequential strategy a task with as many dependencies as a
\* task can have is running
C32_Witness ==
    /\ strategy = "sequential"
    /\ \E t \in TaskSet :
          state[t] = "running" /\ Len(dependencies[t]) = MaxDeps

\* C33: when the task whose dependencies are being waited for has a failed
\* dependency (its other dependencies being completed), the wait ends at
\* once: the task becomes cancelled with error "Dependency failed: <id>" and
\* the execution returns, instead of polling on until the timeout.
C33_FailedDependencyCancelsWait ==
    [][\A i \in 1..Len(tasks) : \A d \in DepSet(tasks[i]) :
          (/\ pc \in {"seq", "seq_wait"}
           /\ idx = i
           /\ DepSet(tasks[i]) \subseteq TaskSet
           /\ d # tasks[i]
           /\ state[d] = "failed"
           /\ \A e \in DepSet(tasks[i]) \ {d} : state[e] = "completed")
          => /\ state'[tasks[i]] = "cancelled"
             /\ error'[tasks[i]] = "Dependency failed: " \o d
             /\ pc' = "returned"
      ]_vars

----------------------------------------------------------------------------
(* Properties of the dependency graph and of the scheduler *)

\* C34: after any add_task and remove_task calls the reverse adjacency is
\* the exact inverse of the forward adjacency over the tasks in the graph
\* (u is a dependent of t exactly when u is in the graph and t is one of
\* u's dependencies), and after a remove_task topological_sort does not
\* fail on a task that is gone.
C34_DependentsInverseOfDependencies ==
    /\ \A t \in Pool, u \in Pool :
          u \in get_dependents(t)
             <=> (in_graph(u) /\ t \in get_dependencies(u))
    /\ g_removed
          => \A ord \in Orders(Pool) : topological_sort(ord).raises # "KeyError"

\* the phase (0 when there is none) in which a task is placed
phase_of(ps, t) ==
    IF \E i \in 1..Len(ps) : t \in Range(ps[i])
    THEN CHOOSE i \in 1..Len(ps) : t \in Range(ps[i])
    ELSE 0

\* every task of the graph is in exactly one phase, once
placed_once(ps) ==
    \A t \in Range(g_tasks) :
       Cardinality({<<i, j>> \in (1..Len(ps)) \X (1..Cardinality(Pool)) :
                       j <= Len(ps[i]) /\ ps[i][j] = t}) = 1

\* the graph has no cycle and names no dependency outside itself
schedulable(ord) ==
    /\ detect_cycles(ord) = <<>>
    /\ \A t \in Range(g_tasks) : get_dependencies(t) \subseteq Range(g_tasks)

\* C35: create_schedule with strategy auto and a map of agent counts, on an
\* acyclic graph, returns phases that hold every task exactly once, each
\* task in a later phase than all its dependencies, with no more tasks of a
\* role in a phase than the map allows; no task is dropped, whatever the
\* counts.
C35_AutoPhasesRespectAgents ==
    \A ord \in Orders(Pool) : \A available \in AvailableAgents :
       (schedulable(ord) /\ DOMAIN available # {})
          => LET r == create_schedule("auto", available, ord) IN
             /\ r.raises = "none"
             /\ placed_once(r.phases)
             /\ \A t \in Range(g_tasks) : \A d \in get_dependencies(t) :
                   phase_of(r.phases, d) < phase_of(r.phases, t)
             /\ \A i \in 1..Len(r.phases) : \A role \in DOMAIN available :
                   role_usage(r.phases[i], role) <= available[role]

\* the greedy layering: the first phase holds exactly the tasks without
\* dependencies, each later one exactly the tasks not yet placed whose
\* dependencies all lie in earlier phases
greedy_layering(ps) ==
    /\ placed_once(ps)
    /\ \A i \in 1..Len(ps) :
          Range(ps[i]) =
             {t \in Range(g_tasks) :
                 /\ \A k \in 1..(i - 1) : t \notin Range(ps[k])
                 /\ \A d \in get_dependencies(t) :
                       \E k \in 1..(i - 1) : d \in Range(ps[k])}

\* C36: create_schedule with strategy parallel on an acyclic graph returns
\* the greedy layering of the graph; with strategy review it returns the
\* same layers followed by one phase holding review_<id> for each task.
C36_ParallelIsGreedyLayering ==
    \A ord \in Orders(Pool) :
       schedulable(ord)
          => LET par == create_schedule("parallel", <<>>, ord)
                 rev == create_schedule("review", <<>>, ord)
             IN  /\ par.raises = "none"
                 /\ greedy_layering(par.phases)
                 /\ rev.raises = "none"
                 /\ Len(rev.phases) = Len(par.phases) + 1
                 /\ SubSeq(rev.phases, 1, Len(par.phases)) = par.phases
                 /\ rev.phases[Len(rev.phases)] =
                       [i \in 1..Len(g_tasks) |-> "review_" \o g_tasks[i]]

----------------------------------------------------------------------------
(* Properties of the connection's reader *)

\* the _read_messages tasks that are reading the agent's output
reader_tasks == (IF read_task = "running" THEN 1 ELSE 0) + leaked

\* an initialize call is still waiting for its response
initialize_awaiting ==
    \E id \in DOMAIN requests :
       requests[id].method = "initialize" /\ requests[id].state = "waiting"

\* C37: at most one reader task consumes the connection's output at any
\* time, over any sequence of initialize and close calls: an initialize
\* called when every earlier initialize has returned (failed or timed out
\* included) leaves at most one reader reading.
C37_AtMostOneReader ==
    [][(/\ last_call'.op = "initialize"
        /\ request_id' # request_id
        /\ ~initialize_awaiting
        /\ reader_tasks <= 1)
       => reader_tasks' <= 1]_acpVars

----------------------------------------------------------------------------
(* Properties of waiting on resolved points and of the monitor's failures *)

\* a policy that matches the point specifies auto_approve_after, and more
\* than that many seconds have passed since the point was created
auto_approvable(id) ==
    /\ policies
    /\ expensive_ops.auto_approve_after > 0
    /\ should_intervene(expensive_ops, context_of(id))
    /\ points[id].overdue

C39_WaitOnTerminalReturnsAtOnce ==
    [][\A w \in Waiters :
          /\ (waiter[w].pc = "idle" /\ waiter'[w].pc = "blocked")
                => /\ waiter'[w].id \in registered
                   /\ points[waiter'[w].id].status \notin TerminalStatus
          /\ (waiter[w].pc = "idle" /\ last_wait'.w = w)
                => last_wait'.got =
                      IF last_wait'.id \in registered THEN "point" ELSE "None"
      ]_ivVars

\* C40: a failure raised while the monitor handles one point neither stops
\* the monitor nor keeps the other waiting points from being checked: after
\* a pass in which a failure was raised the monitor still runs and every
\* point that was waiting with its deadline passed is expired.
C40_FailureSparesOtherPoints ==
    (last_pass.ran /\ last_pass.raised)
       => /\ monitor = "running"
          /\ \A id \in last_pass.due : points[id].status = "expired"

====
